---- MODULE Spec2Model ----
(***************************************************************************)
(* The Fluxo interpreter of shared/fluxo-interpreter.ts as a state         *)
(* machine.  Text is modelled at character level: a string is a sequence   *)
(* of one-character strings, and every regular expression of the source is *)
(* an operator that computes the same leftmost, greedy match.  Indices are *)
(* 1-based; 0 stands for JavaScript's -1 ("not found").                    *)
(***************************************************************************)
EXTENDS Integers, Sequences, FiniteSets, TLC

VARIABLES windows, variables, exports, output, tokens, idx, pc, result,
          calls, code, lastOp, fresh

vars == <<windows, variables, exports, output, tokens, idx, pc, result,
          calls, code, lastOp, fresh>>

\* ------------------------------------------------------------------------
\* Characters and strings
\* ------------------------------------------------------------------------

Lower == {"a","b","c","d","e","f","g","h","i","j","k","l","m","n","o","p",
          "q","r","s","t","u","v","w","x","y","z"}

Upper == {"A","B","C","D","E","F","G","H","I","J","K","L","M","N","O","P",
          "Q","R","S","T","U","V","W","X","Y","Z"}

Digits == {"0","1","2","3","4","5","6","7","8","9"}

\* \w of the regular expressions
IsWord(c) == c \in Lower \cup Upper \cup Digits \cup {"_"}

\* \s of the regular expressions, and what String.prototype.trim removes
IsSpace(c) == c \in {" ", "\t", "\n", "\r"}

MinOf(S) == CHOOSE x \in S : \A y \in S : x <= y

MaxOf(S) == CHOOSE x \in S : \A y \in S : x >= y

\* String.prototype.trim
Trim(s) ==
  LET ns == {p \in 1..Len(s) : ~IsSpace(s[p])}
  IN IF ns = {} THEN <<>> ELSE SubSeq(s, MinOf(ns), MaxOf(ns))

OccursAt(s, pat, p) ==
  /\ p >= 1
  /\ p + Len(pat) - 1 <= Len(s)
  /\ SubSeq(s, p, p + Len(pat) - 1) = pat

\* String.prototype.startsWith
StartsWith(s, pat) == OccursAt(s, pat, 1)

\* String.prototype.indexOf, 1-based, 0 when absent
IndexOf(s, pat) ==
  LET ps == {p \in 1..Len(s) : OccursAt(s, pat, p)}
  IN IF ps = {} THEN 0 ELSE MinOf(ps)

\* String.prototype.lastIndexOf, 1-based, 0 when absent
LastIndexOf(s, pat) ==
  LET ps == {p \in 1..Len(s) : OccursAt(s, pat, p)}
  IN IF ps = {} THEN 0 ELSE MaxOf(ps)

\* String.prototype.includes
Includes(s, pat) == IndexOf(s, pat) # 0

\* String.prototype.substring(a, b) with 0-based a, b: the arguments are
\* clamped to the string and swapped when a > b.
Substring(s, a, b) ==
  LET ca == IF a < 0 THEN 0 ELSE IF a > Len(s) THEN Len(s) ELSE a
      cb == IF b < 0 THEN 0 ELSE IF b > Len(s) THEN Len(s) ELSE b
      lo == IF ca <= cb THEN ca ELSE cb
      hi == IF ca <= cb THEN cb ELSE ca
  IN SubSeq(s, lo + 1, hi)

\* a replace that removes no quote character
KeepQuotes(s) == s

\* s.replace(/['"]/g, '')
StripQuotes(s) == SelectSeq(s, LAMBDA c : c \notin {"'", "\""})

\* first index >= from holding character c, 0 when there is none
FirstChar(s, c, from) ==
  LET ps == {p \in from..Len(s) : s[p] = c}
  IN IF ps = {} THEN 0 ELSE MinOf(ps)

\* last index of the maximal \w run starting at p (p - 1 when s[p] is no \w)
WordEnd(s, p) ==
  LET stops == {q \in p..Len(s) : ~IsWord(s[q])}
  IN IF stops = {} THEN Len(s) ELSE MinOf(stops) - 1

\* first index >= p that holds no \s (Len(s) + 1 when all the rest is \s)
SkipSpaces(s, p) ==
  LET stops == {q \in p..Len(s) : ~IsSpace(s[q])}
  IN IF stops = {} THEN Len(s) + 1 ELSE MinOf(stops)

\* String.prototype.split(c) for a one-character separator
RECURSIVE Split(_, _)
Split(s, c) ==
  LET p == FirstChar(s, c, 1)
  IN IF p = 0 THEN <<s>>
     ELSE <<SubSeq(s, 1, p - 1)>> \o Split(SubSeq(s, p + 1, Len(s)), c)

\* Array.prototype.join(sep)
RECURSIVE Join(_, _)
Join(ss, sep) ==
  IF ss = <<>> THEN <<>>
  ELSE IF Len(ss) = 1 THEN ss[1]
  ELSE ss[1] \o sep \o Join(Tail(ss), sep)

\* ------------------------------------------------------------------------
\* The regular expressions of the interpreter.  Each operator returns
\* [ok, g1, g2, g3, g4]: whether the expression matches and its capture
\* groups, for the leftmost match with greedy quantifiers.
\* ------------------------------------------------------------------------

NoMatch == [ok |-> FALSE, g1 |-> <<>>, g2 |-> <<>>, g3 |-> <<>>, g4 |-> <<>>]

Match(a, b, c, d) == [ok |-> TRUE, g1 |-> a, g2 |-> b, g3 |-> c, g4 |-> d]

CharAt(s, p) == IF p >= 1 /\ p <= Len(s) THEN s[p] ELSE ""

kLocal == <<"l","o","c","a","l">>

kExport == <<"e","x","p","o","r","t">>

kFunction == <<"f","u","n","c","t","i","o","n">>

kWindowId == <<"w","i","n","d","o","w","_","I","d","(">>

kSysLog == <<"s","y","s",".","l","o","g">>

kFind == <<"f","i","n","d","(">>

\* the last index "." can match from p on: "." matches no line terminator
DotEnd(s, p) ==
  LET nl == {q \in p..Len(s) : s[q] \in {"\n", "\r"}}
  IN IF nl = {} THEN Len(s) ELSE MinOf(nl) - 1

\* /local\s+(\w+)\s*=\s*(.+)/ tried at start position p
LocalAt(s, p) ==
  IF ~(OccursAt(s, kLocal, p) /\ IsSpace(CharAt(s, p + 5))) THEN NoMatch
  ELSE
    LET b == SkipSpaces(s, p + 5)
        e == WordEnd(s, b)
        c == SkipSpaces(s, e + 1)
        d == SkipSpaces(s, c + 1)
        \* \s* gives characters back until .+ has one to take
        ds == {x \in (c + 1)..(IF d <= Len(s) THEN d ELSE Len(s)) : s[x] # "\n"}
    IN IF e < b \/ CharAt(s, c) # "=" \/ ds = {} THEN NoMatch
       ELSE Match(SubSeq(s, b, e),
                  SubSeq(s, MaxOf(ds), DotEnd(s, MaxOf(ds))), <<>>, <<>>)

\* line.match(/local\s+(\w+)\s*=\s*(.+)/)
MatchLocal(s) ==
  LET ps == {p \in 1..Len(s) : LocalAt(s, p).ok}
  IN IF ps = {} THEN NoMatch ELSE LocalAt(s, MinOf(ps))

\* /window_Id\(([^)]+)\)/ tried at start position p
WindowIdAt(s, p) ==
  IF ~OccursAt(s, kWindowId, p) THEN NoMatch
  ELSE
    LET q == FirstChar(s, ")", p + 10)
    IN IF q = 0 \/ q = p + 10 THEN NoMatch
       ELSE Match(SubSeq(s, p + 10, q - 1), <<>>, <<>>, <<>>)

\* expr.match(/window_Id\(([^)]+)\)/)
MatchWindowId(s) ==
  LET ps == {p \in 1..Len(s) : WindowIdAt(s, p).ok}
  IN IF ps = {} THEN NoMatch ELSE WindowIdAt(s, MinOf(ps))

\* /(\w+)\.(\w+):(\w+)\(([^)]*)\)/ tried at start position p
ColonCallAt(s, p) ==
  LET e1 == WordEnd(s, p)
      e2 == WordEnd(s, e1 + 2)
      e3 == WordEnd(s, e2 + 2)
      q  == FirstChar(s, ")", e3 + 2)
  IN IF /\ e1 >= p
        /\ CharAt(s, e1 + 1) = "."
        /\ e2 >= e1 + 2
        /\ CharAt(s, e2 + 1) = ":"
        /\ e3 >= e2 + 2
        /\ CharAt(s, e3 + 1) = "("
        /\ q # 0
     THEN Match(SubSeq(s, p, e1), SubSeq(s, e1 + 2, e2),
                SubSeq(s, e2 + 2, e3), SubSeq(s, e3 + 2, q - 1))
     ELSE NoMatch

\* expr.match(/(\w+)\.(\w+):(\w+)\(([^)]*)\)/)
MatchColonCall(s) ==
  LET ps == {p \in 1..Len(s) : ColonCallAt(s, p).ok}
  IN IF ps = {} THEN NoMatch ELSE ColonCallAt(s, MinOf(ps))

\* /(\w+)\.(\w+):find\(([^)]+)\)/ tried at start position p
FindAt(s, p) ==
  LET e1 == WordEnd(s, p)
      e2 == WordEnd(s, e1 + 2)
      q  == FirstChar(s, ")", e2 + 7)
  IN IF /\ e1 >= p
        /\ CharAt(s, e1 + 1) = "."
        /\ e2 >= e1 + 2
        /\ CharAt(s, e2 + 1) = ":"
        /\ OccursAt(s, kFind, e2 + 2)
        /\ q # 0
        /\ q > e2 + 7
     THEN Match(SubSeq(s, p, e1), SubSeq(s, e1 + 2, e2),
                SubSeq(s, e2 + 7, q - 1), <<>>)
     ELSE NoMatch

\* trimmedContent.match(/(\w+)\.(\w+):find\(([^)]+)\)/)
MatchFind(s) ==
  LET ps == {p \in 1..Len(s) : FindAt(s, p).ok}
  IN IF ps = {} THEN NoMatch ELSE FindAt(s, MinOf(ps))

\* /sys\.log\s*\(([^)]+)\)/ tried at start position p
SysLogAt(s, p) ==
  IF ~OccursAt(s, kSysLog, p) THEN NoMatch
  ELSE
    LET a == SkipSpaces(s, p + 7)
        q == FirstChar(s, ")", a + 1)
    IN IF CharAt(s, a) # "(" \/ q = 0 \/ q = a + 1 THEN NoMatch
       ELSE Match(SubSeq(s, a + 1, q - 1), <<>>, <<>>, <<>>)

\* line.match(/sys\.log\s*\(([^)]+)\)/)
MatchSysLog(s) ==
  LET ps == {p \in 1..Len(s) : SysLogAt(s, p).ok}
  IN IF ps = {} THEN NoMatch ELSE SysLogAt(s, MinOf(ps))

\* /(\w+)\s*\(/ tried at start position p
CallNameAt(s, p) ==
  LET e == WordEnd(s, p)
      a == SkipSpaces(s, e + 1)
  IN IF e >= p /\ CharAt(s, a) = "("
     THEN Match(SubSeq(s, p, e), <<>>, <<>>, <<>>)
     ELSE NoMatch

\* line.match(/(\w+)\s*\(/)
MatchCallName(s) ==
  LET ps == {p \in 1..Len(s) : CallNameAt(s, p).ok}
  IN IF ps = {} THEN NoMatch ELSE CallNameAt(s, MinOf(ps))

\* /(\w+)\s*\((.*)\)/ tried at start position p: (.*) is greedy and ends at
\* the last ")" before the next line terminator
CallAt(s, p) ==
  LET e == WordEnd(s, p)
      a == SkipSpaces(s, e + 1)
      qs == {q \in (a + 1)..DotEnd(s, a + 1) : s[q] = ")"}
  IN IF e >= p /\ CharAt(s, a) = "(" /\ qs # {}
     THEN Match(SubSeq(s, p, e), SubSeq(s, a + 1, MaxOf(qs) - 1), <<>>, <<>>)
     ELSE NoMatch

\* line.match(/(\w+)\s*\((.*)\)/)
MatchCall(s) ==
  LET ps == {p \in 1..Len(s) : CallAt(s, p).ok}
  IN IF ps = {} THEN NoMatch ELSE CallAt(s, MinOf(ps))

\* /export\s+function\s+(\w+)\s*\(([^)]*)\)/ tried at start position p
ExportAt(s, p) ==
  IF ~(OccursAt(s, kExport, p) /\ IsSpace(CharAt(s, p + 6))) THEN NoMatch
  ELSE
    LET f == SkipSpaces(s, p + 6)
        b == SkipSpaces(s, f + 8)
        e == WordEnd(s, b)
        a == SkipSpaces(s, e + 1)
        q == FirstChar(s, ")", a + 1)
    IN IF /\ OccursAt(s, kFunction, f)
          /\ IsSpace(CharAt(s, f + 8))
          /\ e >= b
          /\ CharAt(s, a) = "("
          /\ q # 0
       THEN Match(SubSeq(s, b, e), SubSeq(s, a + 1, q - 1), <<>>, <<>>)
       ELSE NoMatch

\* firstLine.match(/export\s+function\s+(\w+)\s*\(([^)]*)\)/)
MatchExport(s) ==
  LET ps == {p \in 1..Len(s) : ExportAt(s, p).ok}
  IN IF ps = {} THEN NoMatch ELSE ExportAt(s, MinOf(ps))

\* trimmed.match(/^\w+\s*\(/)
MatchBodyCallHead(s) == CallNameAt(s, 1).ok

\* trimmed.match(/^(\w+)\s*\(([^)]*)\)/)
MatchBodyCall(s) ==
  LET e == WordEnd(s, 1)
      a == SkipSpaces(s, e + 1)
      q == FirstChar(s, ")", a + 1)
  IN IF e >= 1 /\ CharAt(s, a) = "(" /\ q # 0
     THEN Match(SubSeq(s, 1, e), SubSeq(s, a + 1, q - 1), <<>>, <<>>)
     ELSE NoMatch

\* ------------------------------------------------------------------------
\* Runtime values.  Every value is a record of one shape:
\*   t  the kind: "undef", "null", "str", "num", "bool", "obj", "arr",
\*      "win" (the object createWindowObject returns), "libobj" and "dbobj"
\*      (its library / database members), "fn" (one of its closures);
\*   s  the text of a string, or the name of a closure;
\*   n  a number, a boolean (1 / 0), or the registry index (1-based) of the
\*      record a window object or closure is bound to;
\*   f  the own properties of an object, in insertion order, as <<[k, v]>>.
\* Properties inherited from Object.prototype, String.prototype and
\* Function.prototype are not modelled: scripts are bounded to identifiers
\* that name none of them.
\* ------------------------------------------------------------------------

Val(t, s, n, f) == [t |-> t, s |-> s, n |-> n, f |-> f]

Undef == Val("undef", <<>>, 0, <<>>)

Null == Val("null", <<>>, 0, <<>>)

Str(s) == Val("str", s, 0, <<>>)

Num(n) == Val("num", <<>>, n, <<>>)

Bool(b) == Val("bool", <<>>, IF b THEN 1 ELSE 0, <<>>)

Obj(f) == Val("obj", <<>>, 0, f)

Arr(f) == Val("arr", <<>>, 0, f)

Win(i) == Val("win", <<>>, i, <<>>)

LibObj(i) == Val("libobj", <<>>, i, <<>>)

DbObj(i) == Val("dbobj", <<>>, i, <<>>)

Fn(name, i) == Val("fn", name, i, <<>>)

Field(k, v) == [k |-> k, v |-> v]

\* JavaScript truthiness
Truthy(v) ==
  /\ v.t \notin {"undef", "null"}
  /\ ~(v.t = "str" /\ v.s = <<>>)
  /\ ~(v.t \in {"num", "bool"} /\ v.n = 0)

\* a || b
OrElse(a, b) == IF Truthy(a) THEN a ELSE b

\* typeof v
TypeOf(v) ==
  CASE v.t = "undef" -> "undefined"
    [] v.t = "str" -> "string"
    [] v.t = "num" -> "number"
    [] v.t = "bool" -> "boolean"
    [] v.t = "fn" -> "function"
    [] OTHER -> "object"

\* Map.prototype.has / get / set on a map kept as a function
MapHas(m, k) == k \in DOMAIN m

MapGet(m, k) == IF k \in DOMAIN m THEN m[k] ELSE Undef

MapSet(m, k, v) == [x \in DOMAIN m \cup {k} |-> IF x = k THEN v ELSE m[x]]

EmptyMap == [x \in {} |-> Undef]

\* o[k] on the own properties f of an object
FieldGet(f, k) ==
  LET ps == {p \in 1..Len(f) : f[p].k = k}
  IN IF ps = {} THEN Undef ELSE f[MinOf(ps)].v

\* o[k] = v on the own properties f of an object
FieldSet(f, k, v) ==
  IF \E p \in 1..Len(f) : f[p].k = k
  THEN [p \in 1..Len(f) |-> IF f[p].k = k THEN Field(k, v) ELSE f[p]]
  ELSE Append(f, Field(k, v))

pId == <<"i","d">>

pTitle == <<"t","i","t","l","e">>

pAppType == <<"a","p","p","T","y","p","e">>

pInfo == <<"i","n","f","o">>

pLibary == <<"l","i","b","a","r","y">>

pLibrary == <<"l","i","b","r","a","r","y">>

pDatabase == <<"d","a","t","a","b","a","s","e">>

pData == <<"d","a","t","a">>

pFind == <<"f","i","n","d">>

pWrite == <<"w","r","i","t","e">>

pRead == <<"r","e","a","d">>

pSuccess == <<"s","u","c","c","e","s","s">>

pKey == <<"k","e","y">>

pValue == <<"v","a","l","u","e">>

pName == <<"n","a","m","e">>

pType == <<"t","y","p","e">>

pContent == <<"c","o","n","t","e","n","t">>

pLength == <<"l","e","n","g","t","h">>

pMainSection == <<"m","a","i","n","S","e","c","t","i","o","n">>

pCrossSection == <<"c","r","o","s","s","S","e","c","t","i","o","n">>

pComponents == <<"c","o","m","p","o","n","e","n","t","s">>

sSection == <<"s","e","c","t","i","o","n">>

sMainSectionFor == <<"M","a","i","n"," ","s","e","c","t","i","o","n"," ","f","o","r"," ","w","i","n","d","o","w"," ">>

sVsstudio == <<"v","s","s","t","u","d","i","o">>

sNull == <<"n","u","l","l">>

\* the decimal digits of a natural number
DigitSeq == <<"0","1","2","3","4","5","6","7","8","9">>

RECURSIVE NumStr(_)
NumStr(n) ==
  IF n < 10 THEN <<DigitSeq[n + 1]>>
  ELSE NumStr(n \div 10) \o <<DigitSeq[(n % 10) + 1]>>

\* ------------------------------------------------------------------------
\* The window object model
\* ------------------------------------------------------------------------

UpperSeq == <<"A","B","C","D","E","F","G","H","I","J","K","L","M","N","O",
              "P","Q","R","S","T","U","V","W","X","Y","Z">>

LowerSeq == <<"a","b","c","d","e","f","g","h","i","j","k","l","m","n","o",
              "p","q","r","s","t","u","v","w","x","y","z">>

\* String.prototype.toLowerCase
ToLowerCase(s) ==
  [p \in 1..Len(s) |->
     IF s[p] \in Upper
     THEN LowerSeq[CHOOSE q \in 1..26 : UpperSeq[q] = s[p]]
     ELSE s[p]]

\* Array.prototype.find over the indices ps of the elements that satisfy
\* the test: the first of them, 0 for undefined
FindIndex(ps) == IF ps = {} THEN 0 ELSE MinOf(ps)

\* this.windows.find(w => w.id === pattern)
ExactMatch(pattern, ws) ==
  FindIndex({p \in 1..Len(ws) : ws[p].id = pattern})

\* this.windows.find(w => w.title.toLowerCase().includes('vsstudio') ||
\* w.appType === 'vsstudio')
TitleMatch(ws) ==
  FindIndex({p \in 1..Len(ws) :
               \/ Includes(ToLowerCase(ws[p].title), sVsstudio)
               \/ ws[p].appType = sVsstudio})

\* this.windows[0] || null, as an index
FirstWindow(ws) == IF Len(ws) >= 1 THEN 1 ELSE 0

\* A resolveWindowId without the "window-1" / "window-11" special case
ResolveNoSpecialCase(pattern, ws) ==
  LET exactMatch == ExactMatch(pattern, ws)
      titleMatch == TitleMatch(ws)
  IN IF exactMatch # 0 THEN exactMatch
     ELSE IF titleMatch # 0 THEN titleMatch
     ELSE FirstWindow(ws)

\* A resolveWindowId without the closing "return this.windows[0] || null"
ResolveNoFallback(pattern, ws) ==
  LET num == SubSeq(pattern, 8, Len(pattern))
  IN IF /\ StartsWith(pattern, <<"w", "i", "n", "d", "o", "w", "-">>)
        /\ (num = <<"1", "1">> \/ num = <<"1">>)
     THEN FirstWindow(ws)
     ELSE IF ExactMatch(pattern, ws) # 0 THEN ExactMatch(pattern, ws)
     ELSE TitleMatch(ws)

\* A resolveWindowId that tries the "vsstudio" record before the exact one
ResolveTitleFirst(pattern, ws) ==
  LET num == SubSeq(pattern, 8, Len(pattern))
  IN IF /\ StartsWith(pattern, <<"w", "i", "n", "d", "o", "w", "-">>)
        /\ (num = <<"1", "1">> \/ num = <<"1">>)
     THEN FirstWindow(ws)
     ELSE IF TitleMatch(ws) # 0 THEN TitleMatch(ws)
     ELSE IF ExactMatch(pattern, ws) # 0 THEN ExactMatch(pattern, ws)
     ELSE FirstWindow(ws)

\* resolveWindowId: the registry index of the record, 0 for null
resolveWindowId(pattern, ws) ==
  LET num == SubSeq(pattern, 8, Len(pattern))
      exactMatch == ExactMatch(pattern, ws)
      titleMatch == TitleMatch(ws)
  IN IF /\ StartsWith(pattern, <<"w","i","n","d","o","w","-">>)
        /\ (num = <<"1","1">> \/ num = <<"1">>)
     THEN FirstWindow(ws)
     ELSE IF exactMatch # 0 THEN exactMatch
     ELSE IF titleMatch # 0 THEN titleMatch
     ELSE FirstWindow(ws)

\* a default library whose crossSection does not take the size of the record
DefaultLibraryNoSize(w) ==
  Obj(<<Field(pMainSection, Obj(<<Field(pName, Str(pMainSection))>>)),
        Field(pCrossSection,
              Obj(<<Field(pName, Str(pCrossSection)),
                    Field(pData, Obj(<<Field(<<"w", "i", "d", "t", "h">>, Num(0)),
                                       Field(<<"h", "e", "i", "g", "h", "t">>, Num(0))>>))>>)),
        Field(pComponents, Arr(<<>>))>>)

\* initializeDefaultLibrary
initializeDefaultLibrary(w) ==
  Obj(<<Field(pMainSection,
              Obj(<<Field(pName, Str(pMainSection)),
                    Field(pType, Str(sSection)),
                    Field(pContent, Str(sMainSectionFor \o w.id))>>)),
        Field(pCrossSection,
              Obj(<<Field(pName, Str(pCrossSection)),
                    Field(pType, Str(sSection)),
                    Field(pData,
                          Obj(<<Field(<<"x">>, Num(0)),
                                Field(<<"y">>, Num(0)),
                                Field(<<"w","i","d","t","h">>, Num(w.size.width)),
                                Field(<<"h","e","i","g","h","t">>, Num(w.size.height))>>))>>)),
        Field(pComponents, Arr(<<>>))>>)

\* v[k] for a truthy value v: the own properties of each kind of value
GetProp(v, k, ws) ==
  CASE v.t = "win" ->
         (CASE k = pId -> Str(ws[v.n].id)
            [] k = pInfo -> Fn(pInfo, v.n)
            [] k = pLibary -> LibObj(v.n)
            [] k = pLibrary -> LibObj(v.n)
            [] k = pDatabase -> DbObj(v.n)
            [] OTHER -> Undef)
    [] v.t = "libobj" -> IF k = pFind THEN Fn(pFind, v.n) ELSE Undef
    [] v.t = "dbobj" ->
         (CASE k = pWrite -> Fn(pWrite, v.n)
            [] k = pRead -> Fn(pRead, v.n)
            [] OTHER -> Undef)
    [] v.t = "obj" -> FieldGet(v.f, k)
    [] v.t = "str" -> IF k = pLength THEN Num(Len(v.s)) ELSE Undef
    [] v.t = "arr" -> IF k = pLength THEN Num(Len(v.f)) ELSE Undef
    [] OTHER -> Undef

\* the i-th call argument, undefined when the call passes fewer
Arg(args, i) == IF i <= Len(args) THEN args[i] ELSE Undef

sUndefined == <<"u","n","d","e","f","i","n","e","d">>

sTrue == <<"t","r","u","e">>

sFalse == <<"f","a","l","s","e">>

sObjectObject == <<"[","o","b","j","e","c","t"," ","O","b","j","e","c","t","]">>

\* String(v): a closure prints as its source text, which the build decides
ToStr(v) ==
  CASE v.t = "str" -> v.s
    [] v.t = "num" -> NumStr(v.n)
    [] v.t = "bool" -> IF v.n = 1 THEN sTrue ELSE sFalse
    [] v.t = "null" -> sNull
    [] v.t = "undef" -> sUndefined
    [] v.t = "fn" -> <<"<source of ">> \o v.s \o <<">">>
    [] v.t = "arr" -> <<>>
    [] OTHER -> sObjectObject

\* getWindowInfo: the snapshot.  The record is not changed.
getWindowInfo(i, data, ws) ==
  LET w == ws[i]
      lib == OrElse(w.library, initializeDefaultLibrary(w))
  IN Obj(<<Field(pId, Str(w.id)),
           Field(pTitle, Str(w.title)),
           Field(pAppType, Str(w.appType)),
           Field(pLibrary, lib),
           Field(pLibary, lib),
           Field(pData, OrElse(data, w.data))>>)

\* a findInLibrary that lays the default library over the one of the record
findInLibraryAlways(i, key, ws) ==
  [v |-> OrElse(GetProp(initializeDefaultLibrary(ws[i]), key, ws), Null),
   ws |-> [ws EXCEPT ![i].library = initializeDefaultLibrary(ws[i])]]

\* findInLibrary: [v, ws], the value found and the registry after the call
findInLibrary(i, key, ws) ==
  LET lib == IF Truthy(ws[i].library) THEN ws[i].library
             ELSE initializeDefaultLibrary(ws[i])
      ws2 == [ws EXCEPT ![i].library = lib]
  IN [v |-> OrElse(GetProp(lib, key, ws2), Null), ws |-> ws2]

\* a database.read that reads the store of the first record
dbReadFirst(i, key, ws) ==
  [v |-> OrElse(IF ws[1].data.t \in {"undef", "null"} THEN Undef
                ELSE GetProp(ws[1].data, key, ws), Null),
   ws |-> ws]

\* createWindowObject(...).database.read: window.data?.[key] || null
dbRead(i, key, ws) ==
  LET d == ws[i].data
      v == IF d.t \in {"undef", "null"} THEN Undef ELSE GetProp(d, key, ws)
  IN [v |-> OrElse(v, Null), ws |-> ws]

\* a database.write that lays a new store over the one of the record
dbWriteFresh(i, key, value, ws) ==
  [v |-> Obj(<<Field(pSuccess, Bool(TRUE)),
               Field(pKey, key),
               Field(pValue, value)>>),
   ws |-> [ws EXCEPT ![i].data = Obj(<<Field(ToStr(key), value)>>)]]

\* createWindowObject(...).database.write
dbWrite(i, key, value, ws) ==
  LET d == IF Truthy(ws[i].data) THEN ws[i].data ELSE Obj(<<>>)
      d2 == [d EXCEPT !.f = FieldSet(d.f, ToStr(key), value)]
  IN [v |-> Obj(<<Field(pSuccess, Bool(TRUE)),
                  Field(pKey, key),
                  Field(pValue, value)>>),
      ws |-> [ws EXCEPT ![i].data = d2]]

\* fn(...args) for a closure of a window object: [v, ws].  A property key
\* is the string form of the argument.
CallFn(fn, args, ws) ==
  CASE fn.s = pFind -> findInLibrary(fn.n, ToStr(Arg(args, 1)), ws)
    [] fn.s = pWrite -> dbWrite(fn.n, Arg(args, 1), Arg(args, 2), ws)
    [] fn.s = pRead -> dbRead(fn.n, ToStr(Arg(args, 1)), ws)
    [] OTHER -> [v |-> getWindowInfo(fn.n, Arg(args, 1), ws), ws |-> ws]

\* ------------------------------------------------------------------------
\* JSON.stringify
\* ------------------------------------------------------------------------

\* the own enumerable properties JSON.stringify walks: the members of a
\* window object are taken as createWindowObject lays them out
JsonFields(v, ws) ==
  CASE v.t = "win" ->
         <<Field(pId, Str(ws[v.n].id)),
           Field(pInfo, Fn(pInfo, v.n)),
           Field(pLibary, LibObj(v.n)),
           Field(pLibrary, LibObj(v.n)),
           Field(pDatabase, DbObj(v.n))>>
    [] v.t = "libobj" -> <<Field(pFind, Fn(pFind, v.n))>>
    [] v.t = "dbobj" ->
         <<Field(pWrite, Fn(pWrite, v.n)), Field(pRead, Fn(pRead, v.n))>>
    [] OTHER -> v.f

\* a string as a JSON string: quoted, with quote, backslash and line feed
\* escaped
RECURSIVE JsonEscape(_)
JsonEscape(s) ==
  IF s = <<>> THEN <<>>
  ELSE (CASE Head(s) = "\"" -> <<"\\", "\"">>
          [] Head(s) = "\\" -> <<"\\", "\\">>
          [] Head(s) = "\n" -> <<"\\", "n">>
          [] OTHER -> <<Head(s)>>) \o JsonEscape(Tail(s))

JsonString(s) == <<"\"">> \o JsonEscape(s) \o <<"\"">>

\* JSON.stringify(v, null, gap) at indentation cur; gap = <<>> is
\* JSON.stringify(v)
RECURSIVE Json(_, _, _, _)
Json(v, gap, cur, ws) ==
  LET inner == cur \o gap
      sep == IF gap = <<>> THEN <<",">> ELSE <<",", "\n">> \o inner
      open == IF gap = <<>> THEN <<>> ELSE <<"\n">> \o inner
      close == IF gap = <<>> THEN <<>> ELSE <<"\n">> \o cur
      colon == IF gap = <<>> THEN <<":">> ELSE <<":", " ">>
  IN CASE v.t = "str" -> JsonString(v.s)
       [] v.t = "num" -> NumStr(v.n)
       [] v.t = "bool" -> IF v.n = 1 THEN sTrue ELSE sFalse
       [] v.t \in {"null", "undef", "fn"} -> sNull
       [] v.t = "arr" ->
            IF v.f = <<>> THEN <<"[", "]">>
            ELSE <<"[">> \o open
                 \o Join([p \in 1..Len(v.f) |-> Json(v.f[p].v, gap, inner, ws)],
                         sep)
                 \o close \o <<"]">>
       [] OTHER ->
            LET kept == SelectSeq(JsonFields(v, ws),
                                  LAMBDA x : x.v.t \notin {"undef", "fn"})
            IN IF kept = <<>> THEN <<"{", "}">>
               ELSE <<"{">> \o open
                    \o Join([p \in 1..Len(kept) |->
                               JsonString(kept[p].k) \o colon
                               \o Json(kept[p].v, gap, inner, ws)], sep)
                    \o close \o <<"}">>

\* ------------------------------------------------------------------------
\* The interpreter.  A context c is the FluxoContext plus the pending
\* exception: [vars, exps, out, wins, err, msg].  Every operator that can
\* change the context or throw returns the context it leaves.
\* ------------------------------------------------------------------------

\* a throw that undoes the writes and the libraries of the records
ThrowRollback(c, msg) ==
  [c EXCEPT !.err = TRUE, !.msg = msg,
            !.wins = [i \in DOMAIN c.wins |->
                        [c.wins[i] EXCEPT !.data = Undef, !.library = Undef]]]

Throw(c, msg) == [c EXCEPT !.err = TRUE, !.msg = msg]

\* a value and the context left behind
Ret(v, c) == [v |-> v, c |-> c]

\* fn(...args) for a closure of a window object, in context c: [v, c]
Invoke(fn, args, c) ==
  [v |-> CallFn(fn, args, c.wins).v,
   c |-> [c EXCEPT !.wins = CallFn(fn, args, c.wins).ws]]

IsQuoted(s) == StartsWith(s, <<"\"">>) \/ StartsWith(s, <<"'">>)

\* one element of argsStr.split(',').map(...) in evaluateColonMethodCall
ColonCallArg(trimmed, c) ==
  IF IsQuoted(trimmed) THEN Str(StripQuotes(trimmed))
  ELSE OrElse(MapGet(c.vars, trimmed), Str(trimmed))

\* argsStr.split(',').map(...) in evaluateColonMethodCall
ColonCallArgs(parts, c) ==
  [p \in 1..Len(parts) |-> ColonCallArg(Trim(parts[p]), c)]

\* evaluateColonMethodCall from "const methodTarget = obj[property]" on
ColonCallTarget(methodTarget, m, c) ==
  IF ~Truthy(methodTarget)
     \/ TypeOf(GetProp(methodTarget, m.g3, c.wins)) # "function"
  THEN Ret(Null, c)
  ELSE Invoke(GetProp(methodTarget, m.g3, c.wins),
              ColonCallArgs(Split(m.g4, ","), c), c)

\* an evaluateColonMethodCall that throws on an absent object or property
ColonCallStrict(obj, m, c) ==
  IF ~Truthy(obj) \/ ~Truthy(GetProp(obj, m.g2, c.wins))
  THEN Ret(Null, Throw(c, <<"C", "a", "n", "n", "o", "t", " ", "r", "e", "a", "d", " ", "p", "r", "o", "p", "e", "r", "t", "i", "e", "s", " ", "o", "f", " ", "u", "n", "d", "e", "f", "i", "n", "e", "d">>))
  ELSE ColonCallTarget(GetProp(obj, m.g2, c.wins), m, c)

\* evaluateColonMethodCall once the expression has matched as m
ColonCallMatched(obj, m, c) ==
  IF ~Truthy(obj) \/ ~Truthy(GetProp(obj, m.g2, c.wins)) THEN Ret(Null, c)
  ELSE ColonCallTarget(GetProp(obj, m.g2, c.wins), m, c)

ColonCallOf(m, expr, c) ==
  IF ~m.ok THEN Ret(Str(expr), c)
  ELSE ColonCallMatched(MapGet(c.vars, m.g1), m, c)

\* evaluateColonMethodCall: [v, c]
evaluateColonMethodCall(expr, c) == ColonCallOf(MatchColonCall(expr), expr, c)

\* /info:\(([^)]*)\)/ tried at start position p
InfoArgAt(s, p) ==
  IF OccursAt(s, <<"i","n","f","o",":","(">>, p) /\ FirstChar(s, ")", p + 6) # 0
  THEN Match(SubSeq(s, p + 6, FirstChar(s, ")", p + 6) - 1), <<>>, <<>>, <<>>)
  ELSE NoMatch

\* expr.match(/info:\(([^)]*)\)/)
MatchInfoArg(s) ==
  LET ps == {p \in 1..Len(s) : InfoArgAt(s, p).ok}
  IN IF ps = {} THEN NoMatch ELSE InfoArgAt(s, MinOf(ps))

\* evaluateInfoCall from "const arg = ..." on
InfoCallArg(windowObj, arg, c) ==
  Invoke(GetProp(windowObj, pInfo, c.wins),
         <<IF arg = sNull THEN Null ELSE MapGet(c.vars, arg)>>, c)

InfoCallOn(varName, windowObj, m, c) ==
  IF ~Truthy(windowObj)
     \/ TypeOf(GetProp(windowObj, pInfo, c.wins)) # "function"
  THEN Ret(Undef, Throw(c, varName \o <<" ","i","s"," ","n","o","t"," ","a"," ","v","a","l","i","d"," ","w","i","n","d","o","w"," ","o","b","j","e","c","t">>))
  ELSE InfoCallArg(windowObj, IF m.ok THEN Trim(m.g1) ELSE sNull, c)

\* evaluateInfoCall: [v, c]
evaluateInfoCall(expr, c) ==
  InfoCallOn(Split(expr, ".")[1], MapGet(c.vars, Split(expr, ".")[1]),
             MatchInfoArg(expr), c)

\* evaluateExpression, the window_Id branch once the pattern is known
WindowIdValue(windowIdPattern, window, c) ==
  IF window = 0
  THEN Ret(Undef, Throw(c, <<"W","i","n","d","o","w"," ">> \o windowIdPattern \o <<" ","n","o","t"," ","f","o","u","n","d">>))
  ELSE Ret(Win(window), c)

WindowIdOf(windowIdPattern, c) ==
  WindowIdValue(windowIdPattern, resolveWindowId(windowIdPattern, c.wins), c)

\* evaluateExpression after the window_Id branch
EvalOther(expr, c) ==
  IF Includes(expr, <<":">>) /\ Includes(expr, <<"(">>)
  THEN evaluateColonMethodCall(expr, c)
  ELSE IF Includes(expr, <<".","i","n","f","o",":","(">>) THEN evaluateInfoCall(expr, c)
  ELSE IF IsQuoted(expr) THEN Ret(Str(StripQuotes(expr)), c)
  ELSE IF expr = sNull THEN Ret(Null, c)
  ELSE IF MapHas(c.vars, expr) THEN Ret(MapGet(c.vars, expr), c)
  ELSE Ret(Str(expr), c)

EvalMatched(m, expr, c) ==
  IF StartsWith(expr, kWindowId) /\ m.ok
  THEN WindowIdOf(Trim(StripQuotes(m.g1)), c)
  ELSE EvalOther(expr, c)

\* evaluateExpression: [v, c]
evaluateExpression(expr, c) == EvalMatched(MatchWindowId(expr), expr, c)

\* the number of occurrences of character ch in s
Count(s, ch) == Cardinality({p \in 1..Len(s) : s[p] = ch})

\* the brace-counting loop of evaluateBlockExpression (lines 106-126) and,
\* with the same text, of parseExportFunction (lines 360-380): [i, text],
\* the index the loop stops at (Len(allTokens) + 1 when it runs off the end)
\* and the accumulated block text
RECURSIVE ScanBlock(_, _, _, _, _)
ScanBlock(allTokens, i, braceCount, foundStart, text) ==
  IF i > Len(allTokens) THEN [i |-> i, text |-> text]
  ELSE LET line == allTokens[i]
           bc == braceCount + Count(line, "{") - Count(line, "}")
           fs == foundStart \/ Count(line, "{") > 0
           tx == IF fs THEN text \o line \o <<"\n">> ELSE text
       IN IF fs /\ bc = 0 THEN [i |-> i, text |-> tx]
          ELSE ScanBlock(allTokens, i + 1, bc, fs, tx)

\* extractBlockContent
extractBlockContent(blockText) ==
  LET firstBrace == IndexOf(blockText, <<"{">>)
      lastBrace == LastIndexOf(blockText, <<"}">>)
  IN IF firstBrace = 0 \/ lastBrace = 0 THEN <<>>
     ELSE Trim(Substring(blockText, firstBrace, lastBrace - 1))

\* evaluateBlockContent from "const libObj = ..." on
BlockFindIn(libObj, findArg, c) ==
  IF Truthy(libObj) /\ TypeOf(GetProp(libObj, pFind, c.wins)) = "function"
  THEN Invoke(GetProp(libObj, pFind, c.wins), <<Str(findArg)>>, c)
  ELSE Ret(Null, c)

BlockFindOn(windowObj, findArg, c) ==
  IF Truthy(windowObj)
  THEN BlockFindIn(OrElse(GetProp(windowObj, pLibary, c.wins),
                          GetProp(windowObj, pLibrary, c.wins)), findArg, c)
  ELSE Ret(Null, c)

BlockContentOf(m, trimmedContent, c) ==
  IF Includes(trimmedContent, <<":","f","i","n","d","(">>) /\ m.ok
  THEN BlockFindOn(MapGet(c.vars, m.g1), Trim(StripQuotes(m.g3)), c)
  ELSE Ret(Null, c)

BlockContentTrimmed(trimmedContent, c) ==
  BlockContentOf(MatchFind(trimmedContent), trimmedContent, c)

\* evaluateBlockContent: [v, c]
evaluateBlockContent(prefix, content, c) == BlockContentTrimmed(Trim(content), c)

\* an evaluateBlockExpression that reports no line consumed
BlockOfStuck(prefix, scan, startIndex, c) ==
  [r |-> evaluateBlockContent(prefix, extractBlockContent(scan.text), c),
   n |-> 0]

\* the result of evaluateBlockExpression from the loop's result
BlockOf(prefix, scan, startIndex, c) ==
  [r |-> evaluateBlockContent(prefix, extractBlockContent(scan.text), c),
   n |-> scan.i - startIndex + 1]

\* evaluateBlockExpression: [r, n] with r = [v, c], n the lines consumed
evaluateBlockExpression(expression, allTokens, startIndex, c) ==
  BlockOf(Trim(SubSeq(expression, 1, IndexOf(expression, <<"{">>) - 1)),
          ScanBlock(allTokens, startIndex, 0, FALSE, <<>>), startIndex, c)

\* this.context.variables.set(varName, value), unless evaluating threw
Bind(varName, r) ==
  IF r.c.err THEN r.c
  ELSE [r.c EXCEPT !.vars = MapSet(r.c.vars, varName, r.v)]

BindBlock(varName, b) == [n |-> b.n, c |-> Bind(varName, b.r)]

\* an executeLocalDeclaration that passes over a line it cannot match
LocalLenient(m, line, allTokens, currentIndex, c) ==
  IF ~m.ok THEN [n |-> 1, c |-> c]
  ELSE IF Includes(m.g2, <<"{">>)
  THEN BindBlock(m.g1,
                 evaluateBlockExpression(m.g2, allTokens, currentIndex, c))
  ELSE [n |-> 1, c |-> Bind(m.g1, evaluateExpression(Trim(m.g2), c))]

\* executeLocalDeclaration once the line has matched as m
LocalOf(m, line, allTokens, currentIndex, c) ==
  IF ~m.ok
  THEN [n |-> 0, c |-> Throw(c, <<"I","n","v","a","l","i","d"," ","l","o","c","a","l"," ","d","e","c","l","a","r","a","t","i","o","n",":"," ">> \o line)]
  ELSE IF Includes(m.g2, <<"{">>)
  THEN BindBlock(m.g1,
                 evaluateBlockExpression(m.g2, allTokens, currentIndex, c))
  ELSE [n |-> 1, c |-> Bind(m.g1, evaluateExpression(Trim(m.g2), c))]

\* executeLocalDeclaration: [n, c] with n the lines consumed
executeLocalDeclaration(line, allTokens, currentIndex, c) ==
  LocalOf(MatchLocal(line), line, allTokens, currentIndex, c)

\* resolveVariablePath; null is returned where the path leaves the objects
RECURSIVE WalkPath(_, _, _, _)
WalkPath(current, parts, i, ws) ==
  IF i > Len(parts) THEN current
  ELSE IF Truthy(current) /\ TypeOf(current) = "object"
  THEN WalkPath(GetProp(current, parts[i], ws), parts, i + 1, ws)
  ELSE Null

PathOf(parts, c) == WalkPath(MapGet(c.vars, parts[1]), parts, 2, c.wins)

resolveVariablePath(path, c) == PathOf(Split(path, "."), c)

\* the rendering of a looked-up argument of sys.log
SysLogValue(value, trimmed, c) ==
  IF value.t \notin {"undef", "null"}
  THEN IF TypeOf(value) = "object"
       THEN Json(value, <<" ", " ">>, <<>>, c.wins)
       ELSE ToStr(value)
  ELSE StripQuotes(trimmed)

\* one element of match[1].split(',').map(...) in executeSysLog
SysLogArg(trimmed, c) ==
  IF IsQuoted(trimmed) THEN StripQuotes(trimmed)
  ELSE SysLogValue(OrElse(MapGet(c.vars, trimmed),
                          resolveVariablePath(trimmed, c)), trimmed, c)

SysLogArgs(parts, c) == [p \in 1..Len(parts) |-> SysLogArg(Trim(parts[p]), c)]

SysLogOf(m, c) ==
  IF ~m.ok THEN c
  ELSE [c EXCEPT !.out =
          Append(c.out, Join(SysLogArgs(Split(m.g1, ","), c), <<" ">>))]

\* executeSysLog: the context after the call
executeSysLog(line, c) == SysLogOf(MatchSysLog(line), c)

TrimAll(parts) == [p \in 1..Len(parts) |-> Trim(parts[p])]

\* paramsStr.split(',').map(p => p.trim()).filter(p => p)
ParseParams(paramsStr) ==
  SelectSeq(TrimAll(Split(paramsStr, ",")), LAMBDA x : x # <<>>)

ExportOf(m, firstLine, scan, startIndex, c) ==
  IF ~m.ok
  THEN [n |-> 0, c |-> Throw(c, <<"I","n","v","a","l","i","d"," ","e","x","p","o","r","t"," ","f","u","n","c","t","i","o","n",":"," ">> \o firstLine)]
  ELSE [n |-> scan.i - startIndex + 1,
        c |-> [c EXCEPT !.exps =
                 MapSet(c.exps, m.g1,
                        [params |-> ParseParams(m.g2), body |-> scan.text])]]

ExportLine(firstLine, allTokens, startIndex, c) ==
  ExportOf(MatchExport(firstLine), firstLine,
           ScanBlock(allTokens, startIndex, 0, FALSE, <<>>), startIndex, c)

\* parseExportFunction: [n, c] with n the lines consumed
parseExportFunction(allTokens, startIndex, c) ==
  ExportLine(Trim(allTokens[startIndex]), allTokens, startIndex, c)

CallNameKnown(m, c) == m.ok /\ MapHas(c.exps, m.g1)

\* isExportedFunctionCall
isExportedFunctionCall(line, c) == CallNameKnown(MatchCallName(line), c)

\* one element of argsStr.split(',').map(...) of a call line in a body
BodyCallArg(argTrimmed, c) ==
  OrElse(MapGet(c.vars, argTrimmed), Str(argTrimmed))

BodyCallArgs(parts, c) ==
  Arr([p \in 1..Len(parts) |-> Field(<<>>, BodyCallArg(Trim(parts[p]), c))])

\* the "Return: ..." entry of a return line
BodyReturn(r) ==
  IF r.c.err THEN r.c
  ELSE [r.c EXCEPT !.out =
          Append(r.c.out,
                 <<"R","e","t","u","r","n",":"," ">> \o
                 (IF TypeOf(r.v) = "object"
                  THEN Json(r.v, <<>>, <<>>, r.c.wins)
                  ELSE ToStr(r.v)))]

\* a call line of a body that appends nothing
BodyCallQuiet(m, c) == c

\* the "Called ... with: ..." entry of a call line
BodyCall(m, c) ==
  IF ~m.ok THEN c
  ELSE [c EXCEPT !.out =
          Append(c.out,
                 <<"C","a","l","l","e","d"," ">> \o m.g1 \o <<" ","w","i","t","h",":"," ">>
                 \o Json(BodyCallArgs(Split(m.g2, ","), c), <<>>, <<>>,
                         c.wins))]

\* one iteration of the loop over bodyLines in executeExportedFunction
ExecBodyLine(trimmed, bodyLines, c) ==
  IF trimmed = <<>> \/ trimmed = <<"{">> \/ trimmed = <<"}">> THEN c
  ELSE IF StartsWith(trimmed, <<"l","o","c","a","l"," ">>)
  THEN executeLocalDeclaration(trimmed, bodyLines, 1, c).c
  ELSE IF Includes(trimmed, <<"s","y","s",".","l","o","g","(">>) THEN executeSysLog(trimmed, c)
  ELSE IF StartsWith(trimmed, <<"r","e","t","u","r","n"," ">>)
  THEN BodyReturn(evaluateExpression(
                    Trim(Substring(trimmed, 7, Len(trimmed))), c))
  ELSE IF MatchBodyCallHead(trimmed) THEN BodyCall(MatchBodyCall(trimmed), c)
  ELSE c

\* a loop over bodyLines that runs the first line only
RunBodyFirst(bodyLines, k, c) ==
  IF bodyLines = <<>> THEN c
  ELSE ExecBodyLine(Trim(bodyLines[1]), bodyLines, c)

\* the loop over bodyLines: it ends at the first line that throws
RECURSIVE RunBody(_, _, _)
RunBody(bodyLines, k, c) ==
  IF k > Len(bodyLines) \/ c.err THEN c
  ELSE RunBody(bodyLines, k + 1,
               ExecBodyLine(Trim(bodyLines[k]), bodyLines, c))

\* bodyContent.split('\n').filter(l => l.trim())
BodyLines(bodyContent) ==
  SelectSeq(Split(bodyContent, "\n"), LAMBDA l : Trim(l) # <<>>)

\* an executeExportedFunction whose body runs in a scope of its own: the
\* bindings of the body are dropped when the call returns
CallScoped(m, c) ==
  IF ~m.ok \/ ~MapHas(c.exps, m.g1) THEN c
  ELSE [RunBody(BodyLines(extractBlockContent(c.exps[m.g1].body)), 1, c)
          EXCEPT !.vars = c.vars]

CallOf(m, c) ==
  IF ~m.ok \/ ~MapHas(c.exps, m.g1) THEN c
  ELSE RunBody(BodyLines(extractBlockContent(c.exps[m.g1].body)), 1, c)

\* executeExportedFunction: the context after the call
executeExportedFunction(line, c) == CallOf(MatchCall(line), c)

\* tokenize
tokenize(codeLines) ==
  SelectSeq(codeLines,
            LAMBDA line : Trim(line) # <<>> /\ ~StartsWith(Trim(line), <<"/","/">>))

sFluxoError == <<"F","l","u","x","o"," ","E","r","r","o","r",":"," ">>

sNoOutput == <<"S","c","r","i","p","t"," ","e","x","e","c","u","t","e","d"," ","s","u","c","c","e","s","s","f","u","l","l","y"," ","(","n","o"," ","o","u","t","p","u","t",")">>

\* an execute without the catch clause: the thrown message leaves as it is
executeUncaught(c) ==
  IF c.err THEN c.msg
  ELSE LET joined == Join(c.out, <<"\n">>)
       IN IF joined # <<>> THEN joined ELSE sNoOutput

\* an execute whose catch clause puts the error after the transcript
executeKeepTranscript(c) ==
  IF c.err THEN Join(c.out \o <<sFluxoError \o c.msg>>, <<"\n">>)
  ELSE LET joined == Join(c.out, <<"\n">>)
       IN IF joined # <<>> THEN joined ELSE sNoOutput

\* what execute returns for the context parseAndExecute leaves: the catch
\* clause turns a thrown error into the error string
executeResult(c) ==
  IF c.err THEN sFluxoError \o c.msg
  ELSE LET joined == Join(c.out, <<"\n">>)
       IN IF joined # <<>> THEN joined ELSE sNoOutput

\* ------------------------------------------------------------------------
\* Inputs: window registries and scripts
\* ------------------------------------------------------------------------

MaxLines == 2

MaxCalls == 2

WinA == [id |-> <<"a","b","c">>, title |-> <<"F","o","o">>, appType |-> <<"n","o","t","e","p","a","d">>,
         size |-> [width |-> 800, height |-> 600],
         library |-> Undef, data |-> Undef]

WinB == [id |-> <<"w","i","n","d","o","w","-","1","1">>, title |-> <<"M","y"," ","V","S","S","t","u","d","i","o">>, appType |-> <<"f","i","l","e","s">>,
         size |-> [width |-> 640, height |-> 480],
         library |-> Undef,
         data |-> Obj(<<Field(<<"k">>, Str(<<"o","l","d">>))>>)]

WinC == [id |-> <<"w","3">>, title |-> <<"T","e","r","m">>, appType |-> sVsstudio,
         size |-> [width |-> 320, height |-> 200],
         library |-> Obj(<<Field(pMainSection, Str(<<"h","o","s","t">>))>>),
         data |-> Undef]

\* registries: none, one, and two records in either order, with and without
\* a record that is a "vsstudio" one by its title or its application type
Registries ==
  {<<>>, <<WinA>>, <<WinA, WinB>>, <<WinB, WinA>>, <<WinA, WinC>>,
   <<WinC, WinB>>, <<WinC, WinA>>}

\* script lines
lLocalHello == <<"l","o","c","a","l"," ","x"," ","="," ","\"","h","e","l","l","o","\"">>

lLocalEmpty == <<"l","o","c","a","l"," ","x"," ","="," ","\"","\"">>

lLocalColon == <<"l","o","c","a","l"," ","x"," ","="," ","\"","a",":","(","b","\"">>

lLocalBrace == <<"l","o","c","a","l"," ","x"," ","="," ","\"","{","\"">>

lLocalBraces == <<"l","o","c","a","l"," ","x"," ","="," ","\"","{","}","\"">>

lLocalClose == <<"l", "o", "c", "a", "l", " ", "x", " ", "=", " ", "\"", "}", "\"">>

lLocalPunct == <<"l", "o", "c", "a", "l", " ", "x", " ", "=", " ", "\"", "a", ",", " ", "b", ":", " ", "c", ")", "\"">>

lLocalCr == <<"l", "o", "c", "a", "l", " ", "x", " ", "=", " ", "\"", "a", "\r", "b", "\"">>

lLogX == <<"s","y","s",".","l","o","g","(","x",")">>

lLogEmpty == <<"s","y","s",".","l","o","g","(","\"","\"",")">>

lWin11 == <<"l","o","c","a","l"," ","w"," ","="," ","w","i","n","d","o","w","_","I","d","(","\"","w","i","n","d","o","w","-","1","1","\"",")">>

lWin1 == <<"l","o","c","a","l"," ","w"," ","="," ","w","i","n","d","o","w","_","I","d","(","\"","w","i","n","d","o","w","-","1","\"",")">>

lWinAbc == <<"l", "o", "c", "a", "l", " ", "w", " ", "=", " ", "w", "i", "n", "d", "o", "w", "_", "I", "d", "(", "\"", "a", "b", "c", "\"", ")">>

lWinZ == <<"l", "o", "c", "a", "l", " ", "w", " ", "=", " ", "w", "i", "n", "d", "o", "w", "_", "I", "d", "(", "z", "z", "z", ")">>

lExportH == <<"e", "x", "p", "o", "r", "t", " ", "f", "u", "n", "c", "t", "i", "o", "n", " ", "h", "(", ")", " ", "{", " ", "r", "e", "t", "u", "r", "n", " ", "w", "i", "n", "d", "o", "w", "_", "I", "d", "(", "z", "z", "z", ")", " ", "}">>

lCallH == <<"h", "(", ")">>

lBadLocal == <<"l", "o", "c", "a", "l", " ", "o", "o", "p", "s">>

lBadLocalEq == <<"l", "o", "c", "a", "l", " ", "x", " ", "=">>

lLocalLocal == <<"l", "o", "c", "a", "l", " ", "l", "o", "c", "a", "l", " ", "x", " ", "=", " ", "5">>

lBadExport == <<"e", "x", "p", "o", "r", "t", " ", "f", "u", "n", "c", "t", "i", "o", "n", " ", "g", "r", "e", "e", "t", " ", "{">>

lExportExport == <<"e", "x", "p", "o", "r", "t", " ", "f", "u", "n", "c", "t", "i", "o", "n", " ", "e", "x", "p", "o", "r", "t", " ", "f", "u", "n", "c", "t", "i", "o", "n", " ", "f", "(", ")", " ", "{">>

lExportG == <<"e", "x", "p", "o", "r", "t", " ", "f", "u", "n", "c", "t", "i", "o", "n", " ", "g", "(", ")", " ", "{">>

lLogIn == <<"s", "y", "s", ".", "l", "o", "g", "(", "\"", "i", "n", "\"", ")">>

lCallG == <<"g", "(", ")">>

lInfoQ == <<"l", "o", "c", "a", "l", " ", "i", " ", "=", " ", "q", ".", "i", "n", "f", "o", ":", "(", "n", "u", "l", "l", ")">>

lInfoX == <<"l", "o", "c", "a", "l", " ", "i", " ", "=", " ", "x", ".", "i", "n", "f", "o", ":", "(", "n", "u", "l", "l", ")">>

lLocalP == <<"l", "o", "c", "a", "l", " ", "p", " ", "=", " ", "\"", "t", "o", "p", "\"">>

lExportSet == <<"e", "x", "p", "o", "r", "t", " ", "f", "u", "n", "c", "t", "i", "o", "n", " ", "s", "e", "t", "(", "p", ")", " ", "{">>

lLocalB == <<"l", "o", "c", "a", "l", " ", "x", " ", "=", " ", "\"", "b", "\"">>

lLogP == <<"s", "y", "s", ".", "l", "o", "g", "(", "p", ")">>

lCallSetArg == <<"s", "e", "t", "(", "\"", "a", "r", "g", "\"", ")">>

lCallSet == <<"s", "e", "t", "(", ")">>

lExportTwo == <<"e", "x", "p", "o", "r", "t", " ", "f", "u", "n", "c", "t", "i", "o", "n", " ", "t", "w", "o", "(", ")", " ", "{">>

lLogA == <<"s", "y", "s", ".", "l", "o", "g", "(", "\"", "a", "\"", ")">>

lLogBC == <<"s", "y", "s", ".", "l", "o", "g", "(", "\"", "b", "\"", ",", " ", "\"", "c", "\"", ")">>

lCallTwo == <<"t", "w", "o", "(", ")">>

lExportBr == <<"e", "x", "p", "o", "r", "t", " ", "f", "u", "n", "c", "t", "i", "o", "n", " ", "b", "r", "(", ")", " ", "{">>

lLogBrace == <<"s", "y", "s", ".", "l", "o", "g", "(", "\"", "}", "\"", ")">>

lCallBr == <<"b", "r", "(", ")">>

lExportScan == <<"e", "x", "p", "o", "r", "t", " ", "f", "u", "n", "c", "t", "i", "o", "n", " ", "s", "c", "a", "n", "(", ")", " ", "{">>

lOpenA == <<"l", "o", "c", "a", "l", " ", "a", " ", "=", " ", "w", ".", "l", "i", "b", "a", "r", "y", "{">>

lFindMain == <<"w", ".", "l", "i", "b", "a", "r", "y", ":", "f", "i", "n", "d", "(", "m", "a", "i", "n", "S", "e", "c", "t", "i", "o", "n", ")">>

lFindComponents == <<"w", ".", "l", "i", "b", "a", "r", "y", ":", "f", "i", "n", "d", "(", "c", "o", "m", "p", "o", "n", "e", "n", "t", "s", ")">>

lCallScan == <<"s", "c", "a", "n", "(", ")">>

lReadQ == <<"l", "o", "c", "a", "l", " ", "r", " ", "=", " ", "q", ".", "d", "a", "t", "a", "b", "a", "s", "e", ":", "r", "e", "a", "d", "(", "\"", "k", "\"", ")">>

lReadNoProp == <<"l", "o", "c", "a", "l", " ", "r", " ", "=", " ", "w", ".", "n", "o", "t", "h", "i", "n", "g", ":", "r", "e", "a", "d", "(", "\"", "k", "\"", ")">>

lReadNoMethod == <<"l", "o", "c", "a", "l", " ", "r", " ", "=", " ", "w", ".", "d", "a", "t", "a", "b", "a", "s", "e", ":", "n", "o", "t", "h", "i", "n", "g", "(", "\"", "k", "\"", ")">>

lReadStr == <<"l", "o", "c", "a", "l", " ", "r", " ", "=", " ", "x", ".", "d", "a", "t", "a", "b", "a", "s", "e", ":", "r", "e", "a", "d", "(", "\"", "k", "\"", ")">>

lLocalROld == <<"l", "o", "c", "a", "l", " ", "r", " ", "=", " ", "\"", "o", "l", "d", "\"">>

lLogNone == <<"s", "y", "s", ".", "l", "o", "g", "(", ")">>

lExportRec == <<"e", "x", "p", "o", "r", "t", " ", "f", "u", "n", "c", "t", "i", "o", "n", " ", "r", "e", "c", "(", ")", " ", "{">>

lCallRec == <<"r", "e", "c", "(", ")">>

lCallGArgs == <<"g", "(", "\"", "a", "\"", ",", " ", "x", ")">>

lOpenZ == <<"l", "o", "c", "a", "l", " ", "a", " ", "=", " ", "z", "z", "z", "{">>

lFindQuoted == <<"w", ".", "l", "i", "b", "a", "r", "y", ":", "f", "i", "n", "d", "(", "\"", "m", "a", "i", "n", "S", "e", "c", "t", "i", "o", "n", "\"", ")">>

lFindNoKey == <<"w", ".", "l", "i", "b", "r", "a", "r", "y", ":", "f", "i", "n", "d", "(", "n", "o", "k", "e", "y", ")">>

lFindX == <<"x", ".", "l", "i", "b", "a", "r", "y", ":", "f", "i", "n", "d", "(", "m", "a", "i", "n", "S", "e", "c", "t", "i", "o", "n", ")">>

lLibraryCross == <<"l", "o", "c", "a", "l", " ", "a", " ", "=", " ", "w", ".", "l", "i", "b", "r", "a", "r", "y", ":", "f", "i", "n", "d", "(", "\"", "c", "r", "o", "s", "s", "S", "e", "c", "t", "i", "o", "n", "\"", ")">>

lLibaryCross == <<"l", "o", "c", "a", "l", " ", "b", " ", "=", " ", "w", ".", "l", "i", "b", "a", "r", "y", ":", "f", "i", "n", "d", "(", "\"", "c", "r", "o", "s", "s", "S", "e", "c", "t", "i", "o", "n", "\"", ")">>

lLibraryNoKey == <<"l", "o", "c", "a", "l", " ", "a", " ", "=", " ", "w", ".", "l", "i", "b", "r", "a", "r", "y", ":", "f", "i", "n", "d", "(", "n", "o", "k", "e", "y", ")">>

lLibaryNoKey == <<"l", "o", "c", "a", "l", " ", "b", " ", "=", " ", "w", ".", "l", "i", "b", "a", "r", "y", ":", "f", "i", "n", "d", "(", "n", "o", "k", "e", "y", ")">>

lLibaryComponents == <<"l", "o", "c", "a", "l", " ", "a", " ", "=", " ", "w", ".", "l", "i", "b", "a", "r", "y", ":", "f", "i", "n", "d", "(", "c", "o", "m", "p", "o", "n", "e", "n", "t", "s", ")">>

lLibraryComponents == <<"l", "o", "c", "a", "l", " ", "b", " ", "=", " ", "w", ".", "l", "i", "b", "r", "a", "r", "y", ":", "f", "i", "n", "d", "(", "c", "o", "m", "p", "o", "n", "e", "n", "t", "s", ")">>

lWriteN == <<"l", "o", "c", "a", "l", " ", "a", " ", "=", " ", "w", ".", "d", "a", "t", "a", "b", "a", "s", "e", ":", "w", "r", "i", "t", "e", "(", "\"", "n", "\"", ",", " ", "x", ")">>

lWinV1 == <<"l", "o", "c", "a", "l", " ", "v", " ", "=", " ", "w", "i", "n", "d", "o", "w", "_", "I", "d", "(", "\"", "w", "i", "n", "d", "o", "w", "-", "1", "\"", ")">>

lWinVAbc == <<"l", "o", "c", "a", "l", " ", "v", " ", "=", " ", "w", "i", "n", "d", "o", "w", "_", "I", "d", "(", "\"", "a", "b", "c", "\"", ")">>

lReadV == <<"l", "o", "c", "a", "l", " ", "r", " ", "=", " ", "v", ".", "d", "a", "t", "a", "b", "a", "s", "e", ":", "r", "e", "a", "d", "(", "\"", "k", "\"", ")">>

lInfo == <<"l","o","c","a","l"," ","i"," ","="," ","w",".","i","n","f","o",":","(","n","u","l","l",")">>

lLogI == <<"s","y","s",".","l","o","g","(","i",")">>

lOpenLocal == <<"l","o","c","a","l"," ","b"," ","="," ","w",".","l","i","b","a","r","y","{">>

lOpenExport == <<"e","x","p","o","r","t"," ","f","u","n","c","t","i","o","n"," ","f","(",")"," ","{">>

lClose == <<"}">>

lWriteStmt == <<"w",".","d","a","t","a","b","a","s","e",":","w","r","i","t","e","(","\"","k","\"",",","\"","v","\"",")">>

lWriteV == <<"l","o","c","a","l"," ","a"," ","="," ","w",".","d","a","t","a","b","a","s","e",":","w","r","i","t","e","(","\"","k","\"",",","\"","v","\"",")">>

lWriteEmpty == <<"l","o","c","a","l"," ","a"," ","="," ","w",".","d","a","t","a","b","a","s","e",":","w","r","i","t","e","(","\"","k","\"",",","\"","\"",")">>

lRead == <<"l","o","c","a","l"," ","r"," ","="," ","w",".","d","a","t","a","b","a","s","e",":","r","e","a","d","(","\"","k","\"",")">>

lReadN == <<"l","o","c","a","l"," ","r"," ","="," ","w",".","d","a","t","a","b","a","s","e",":","r","e","a","d","(","\"","n","\"",")">>

lLogR == <<"s","y","s",".","l","o","g","(","r",")">>

lCallFoo == <<"f","o","o","(","1",")">>

lCallFooLog == <<"f","o","o","(","s","y","s",".","l","o","g","(","\"","a","\"",")",")">>

lExportGreet == <<"e","x","p","o","r","t"," ","f","u","n","c","t","i","o","n"," ","g","r","e","e","t","(",")"," ","{"," ","s","y","s",".","l","o","g","(","\"","h","i","\"",")"," ","}">>

lCallGreet == <<" "," ","g","r","e","e","t","(",")">>

lComment == <<"/","/"," ","n","o","t","e">>

\* the lines free-form scripts are made of
FreeLines == {lLocalHello, lLogX, lLogEmpty, lWin11, lOpenLocal, lClose}

FreeScripts == UNION {[1..n -> FreeLines] : n \in 0..MaxLines}

\* the scenarios of the specification and their variants
ScenarioScripts ==
  {<<lLocalEmpty, lLogX>>, <<lLocalColon, lLogX>>, <<lLocalBrace, lLogX>>,
   <<lLocalBraces, lLogX>>, <<lLocalClose, lLogX>>, <<lLocalPunct, lLogX>>,
   <<lLocalCr, lLogX>>,
   <<lWin11, lInfo, lLogI>>, <<lWin1, lInfo, lLogI>>,
   <<lWin11, lOpenLocal, lLogX>>, <<lOpenExport, lLogX>>,
   <<lOpenExport, lLogX, lClose, lComment, <<>>, <<"f", "(", ")">>>>,
   <<lWin11, lWriteStmt, lRead, lLogR>>,
   <<lWin11, lWriteV, lRead, lLogR>>, <<lWin11, lWriteEmpty, lRead, lLogR>>,
   <<lWin11, lReadN, lLogR>>, <<lWin1, lWriteV, lWin11, lRead>>,
   <<lCallFoo>>, <<lCallFooLog>>, <<lCallFooLog, lCallFoo>>,
   <<lExportGreet, lCallGreet>>, <<lCallGreet, lExportGreet, lCallGreet>>,
   <<lComment, lLogR>>,
   <<lWinAbc>>, <<lWinZ>>, <<lWin1>>, <<lExportH, lCallH>>,
   <<lLogIn, lBadLocal, lLogX>>, <<lBadLocalEq>>, <<lLocalLocal, lLogX>>,
   <<lLogIn, lBadExport, lClose>>, <<lExportExport, lClose, lLogIn>>,
   <<lExportG, lLogIn, lBadLocal, lClose, lCallG, lLogX>>,
   <<lInfoQ, lLogI>>, <<lLocalHello, lInfoX>>,
   <<lLocalHello, lExportSet, lLocalB, lLogP, lClose, lCallSetArg, lLogX>>,
   <<lLocalHello, lExportSet, lLocalB, lLogP, lClose, lCallSet, lLogX>>,
   <<lLocalP, lExportSet, lLocalB, lLogP, lClose, lCallSetArg, lLogX>>,
   <<lExportTwo, lLogA, lLogBC, lClose, lCallTwo, lCallTwo>>,
   <<lExportBr, lLogBrace, lClose, lCallBr>>,
   <<lWin11, lOpenLocal, lLogIn, lClose, lLogX>>,
   <<lWin11, lOpenA, lFindMain, lClose, lLogX>>,
   <<lWin11, lExportScan, lOpenA, lFindMain, lClose, lOpenLocal,
     lFindComponents, lClose, lClose, lCallScan>>,
   <<lWin11, lExportScan, lOpenA, lLogIn, lClose, lClose, lCallScan>>,
   <<lWin11, lOpenA, lFindMain, lClose, lWriteV>>,
   <<lLocalROld, lReadQ, lLogR>>,
   <<lWin11, lLocalROld, lReadNoProp, lLogR>>,
   <<lWin11, lLocalROld, lReadNoMethod, lLogR>>,
   <<lLocalHello, lReadStr, lLogR>>,
   <<lLogNone, lLogIn>>,
   <<lLogBC, lLogNone>>,
   <<lLocalHello, lExportG, lLogIn, lClose, lExportRec, lCallG, lCallRec,
     lCallGArgs, lClose, lCallRec>>,
   <<lWin11, lOpenA, lFindMain, lClose, lOpenLocal, lFindComponents, lClose>>,
   <<lWin11, lOpenZ, lFindQuoted, lClose>>,
   <<lWin11, lOpenA, lFindNoKey, lClose>>,
   <<lWin11, lOpenA, lFindComponents, lClose>>,
   <<lLocalHello, lOpenA, lFindX, lClose>>,
   <<lWin11, lLibraryCross, lLibaryCross>>,
   <<lWin11, lLibraryNoKey, lLibaryNoKey>>,
   <<lWin11, lLibaryComponents, lLibraryComponents>>,
   <<lLocalHello, lWin11, lWriteN>>,
   <<lWinAbc, lWriteV>>,
   <<lWinAbc, lWriteN, lWriteV>>,
   <<lWin11, lWriteV, lLibraryCross, lLogIn, lBadLocal, lLogX>>,
   <<lWin11, lWinV1, lWriteV, lReadV, lLogR>>,
   <<lWin11, lWinVAbc, lWriteV, lReadV, lLogR>>}

\* a script is the text of its lines joined by line feeds
Scripts == {Join(ls, <<"\n">>) : ls \in FreeScripts \cup ScenarioScripts}

\* the scripts of the calls that follow the first one
FollowUps ==
  {Join(ls, <<"\n">>) :
     ls \in {<<lLogX>>, <<lCallGreet>>, <<lLocalHello, lLogX>>}}

\* ------------------------------------------------------------------------
\* The state machine.  windows is the host's registry; variables, exports
\* and output are the FluxoContext of the interpreter object; tokens and
\* idx are the locals of executeTokens; pc is "run" inside execute and
\* "idle" outside; result is what the last execute returned.  lastOp, fresh
\* and code record what happened: the last step taken, whether the
\* interpreter object has run no script yet, and the script of the call.
\* ------------------------------------------------------------------------

NoOp == [op |-> "none", line |-> <<>>, prev |-> <<>>, n |-> 0, threw |-> FALSE]

Init ==
  /\ windows \in Registries
  /\ variables = EmptyMap
  /\ exports = EmptyMap
  /\ output = <<>>
  /\ tokens = <<>>
  /\ idx = 1
  /\ pc = "idle"
  /\ result = <<>>
  /\ calls = 0
  /\ code = <<>>
  /\ lastOp = NoOp
  /\ fresh = TRUE

Ctx ==
  [vars |-> variables, exps |-> exports, out |-> output, wins |-> windows,
   err |-> FALSE, msg |-> <<>>]

\* the line executeTokens looks at
CurLine == Trim(tokens[idx])

\* the line dispatched before this one in the same run
PrevLine == IF lastOp.op \in {"none", "execute"} THEN <<>> ELSE lastOp.line

\* a statement handler returned, or threw into the catch clause of execute
Step(op, r) ==
  /\ variables' = r.c.vars
  /\ exports' = r.c.exps
  /\ output' = r.c.out
  /\ windows' = r.c.wins
  /\ lastOp' = [op |-> op, line |-> CurLine, prev |-> PrevLine, n |-> r.n,
                threw |-> r.c.err]
  /\ IF r.c.err
     THEN /\ pc' = "idle"
          /\ result' = executeResult(r.c)
          /\ calls' = calls + 1
          /\ idx' = idx
     ELSE /\ pc' = "run"
          /\ idx' = idx + r.n
          /\ UNCHANGED <<result, calls>>
  /\ UNCHANGED <<tokens, code, fresh>>

\* new FluxoInterpreter(windows): a new context over the same registry
Construct ==
  /\ pc = "idle"
  /\ ~fresh
  /\ variables' = EmptyMap
  /\ exports' = EmptyMap
  /\ output' = <<>>
  /\ fresh' = TRUE
  /\ lastOp' = NoOp
  /\ UNCHANGED <<windows, tokens, idx, pc, result, calls, code>>

\* execute(code) is called: tokenize, and enter the loop of executeTokens
Execute ==
  /\ pc = "idle"
  /\ calls < MaxCalls
  /\ \E script \in IF calls = 0 THEN Scripts ELSE FollowUps :
       /\ code' = script
       /\ tokens' = tokenize(Split(script, "\n"))
  /\ idx' = 1
  /\ pc' = "run"
  /\ fresh' = FALSE
  /\ lastOp' = [NoOp EXCEPT !.op = "execute"]
  /\ UNCHANGED <<windows, variables, exports, output, result, calls>>

Running == pc = "run" /\ idx <= Len(tokens)

LocalDeclaration ==
  /\ Running
  /\ StartsWith(CurLine, <<"l","o","c","a","l"," ">>)
  /\ Step("local", executeLocalDeclaration(CurLine, tokens, idx, Ctx))

ExportFunction ==
  /\ Running
  /\ ~StartsWith(CurLine, <<"l","o","c","a","l"," ">>)
  /\ StartsWith(CurLine, <<"e","x","p","o","r","t"," ","f","u","n","c","t","i","o","n"," ">>)
  /\ Step("export", parseExportFunction(tokens, idx, Ctx))

SysLog ==
  /\ Running
  /\ ~StartsWith(CurLine, <<"l","o","c","a","l"," ">>)
  /\ ~StartsWith(CurLine, <<"e","x","p","o","r","t"," ","f","u","n","c","t","i","o","n"," ">>)
  /\ Includes(CurLine, <<"s","y","s",".","l","o","g","(">>)
  /\ Step("log", [n |-> 1, c |-> executeSysLog(CurLine, Ctx)])

ExportedFunctionCall ==
  /\ Running
  /\ ~StartsWith(CurLine, <<"l","o","c","a","l"," ">>)
  /\ ~StartsWith(CurLine, <<"e","x","p","o","r","t"," ","f","u","n","c","t","i","o","n"," ">>)
  /\ ~Includes(CurLine, <<"s","y","s",".","l","o","g","(">>)
  /\ isExportedFunctionCall(CurLine, Ctx)
  /\ Step("call", [n |-> 1, c |-> executeExportedFunction(CurLine, Ctx)])

\* a dispatcher that rejects the line it does not recognise
SkipStrict ==
  /\ Running
  /\ ~StartsWith(CurLine, <<"l", "o", "c", "a", "l", " ">>)
  /\ ~StartsWith(CurLine, <<"e", "x", "p", "o", "r", "t", " ", "f", "u", "n", "c", "t", "i", "o", "n", " ">>)
  /\ ~Includes(CurLine, <<"s", "y", "s", ".", "l", "o", "g", "(">>)
  /\ ~isExportedFunctionCall(CurLine, Ctx)
  /\ Step("skip", [n |-> 1, c |-> Throw(Ctx, <<"U", "n", "k", "n", "o", "w", "n", " ", "s", "t", "a", "t", "e", "m", "e", "n", "t", ":", " ">> \o CurLine)])

\* the else branch of executeTokens: the line is passed over
Skip ==
  /\ Running
  /\ ~StartsWith(CurLine, <<"l","o","c","a","l"," ">>)
  /\ ~StartsWith(CurLine, <<"e","x","p","o","r","t"," ","f","u","n","c","t","i","o","n"," ">>)
  /\ ~Includes(CurLine, <<"s","y","s",".","l","o","g","(">>)
  /\ ~isExportedFunctionCall(CurLine, Ctx)
  /\ Step("skip", [n |-> 1, c |-> Ctx])

\* the loop of executeTokens ends and execute returns
Return ==
  /\ pc = "run"
  /\ idx > Len(tokens)
  /\ pc' = "idle"
  /\ result' = executeResult(Ctx)
  /\ calls' = calls + 1
  /\ lastOp' = [NoOp EXCEPT !.op = "return", !.prev = PrevLine]
  /\ UNCHANGED <<windows, variables, exports, output, tokens, idx, code, fresh>>

Next ==
  \/ Construct
  \/ Execute
  \/ LocalDeclaration
  \/ ExportFunction
  \/ SysLog
  \/ ExportedFunctionCall
  \/ Skip
  \/ Return

Spec == Init /\ [][Next]_vars

\* ------------------------------------------------------------------------
\* Properties
\* ------------------------------------------------------------------------

\* execute has returned, by the end of the loop or through its catch clause
Returned == pc = "idle" /\ (lastOp.op = "return" \/ lastOp.threw)

\* the transcript entry appended last
LastEntry == output[Len(output)]

\* C1: for every script and every registry, the empty one included, what
\* execute returns is the transcript joined by line feeds, the no-output
\* sentinel, or "Fluxo Error: " followed by the message of the error; no
\* error leaves execute.
ExecuteNeverThrows ==
  Returned =>
    IF lastOp.threw THEN StartsWith(result, sFluxoError)
    ELSE result = Join(output, <<"\n">>) \/ result = sNoOutput

\* a window lookup on the empty registry has thrown and execute returned
\* the error string
ErrorOnEmptyRegistry ==
  /\ Returned
  /\ lastOp.threw
  /\ windows = <<>>
  /\ lastOp.line = lWin11
  /\ StartsWith(result, sFluxoError)

\* C2: when a run ends without an error, execute returns the sentinel if and
\* only if the transcript is empty; with one entry or more, an empty-string
\* entry included, it returns the entries joined by line feeds.
SentinelIffEmptyTranscript ==
  (Returned /\ ~lastOp.threw) =>
    /\ (result = sNoOutput) <=> (output = <<>>)
    /\ output # <<>> => result = Join(output, <<"\n">>)

\* C3: every call of execute, a second call on the same interpreter object
\* included, starts with no variable, no exported function and an empty
\* transcript.
FreshContextPerCall ==
  lastOp.op = "execute" =>
    variables = EmptyMap /\ exports = EmptyMap /\ output = <<>>

\* the line is local x = "lit" for some text lit
IsLiteralDecl(line) ==
  /\ StartsWith(line, <<"l", "o", "c", "a", "l", " ", "x", " ", "=", " ", "\"">>)
  /\ Len(line) >= 12
  /\ line[Len(line)] = "\""

\* the text between the quotes of such a line
LitOf(line) == SubSeq(line, 12, Len(line) - 1)

\* a literal with no quote character, no opening brace, no line terminator,
\* and not both a colon and an opening parenthesis
PlainLiteral(lit) ==
  /\ ~Includes(lit, <<"\n">>)
  /\ ~Includes(lit, <<"\r">>)
  /\ ~Includes(lit, <<"\"">>)
  /\ ~Includes(lit, <<"'">>)
  /\ ~Includes(lit, <<"{">>)
  /\ ~(Includes(lit, <<":">>) /\ Includes(lit, <<"(">>))

\* C4 as stated: for every literal lit, whatever it contains, local x = "lit"
\* takes one line, and the line sys.log(x) that follows it appends exactly
\* lit to the transcript.
LiteralLoggedVerbatim ==
  /\ (lastOp.op = "local" /\ IsLiteralDecl(lastOp.line)) =>
       (~lastOp.threw /\ lastOp.n = 1)
  /\ (lastOp.op = "log" /\ lastOp.line = lLogX /\ IsLiteralDecl(lastOp.prev)) =>
       (output # <<>> /\ LastEntry = LitOf(lastOp.prev))

\* C4: for every literal lit that holds no quote character, no opening
\* brace, no line terminator and not both a colon and an opening parenthesis,
\* local x = "lit" takes one line, and the line sys.log(x) that follows it
\* appends exactly lit to the transcript; the empty literal is such a literal.
PlainLiteralLoggedVerbatim ==
  /\ (/\ lastOp.op = "local"
      /\ IsLiteralDecl(lastOp.line)
      /\ PlainLiteral(LitOf(lastOp.line))) =>
       (~lastOp.threw /\ lastOp.n = 1)
  /\ (/\ lastOp.op = "log"
      /\ lastOp.line = lLogX
      /\ IsLiteralDecl(lastOp.prev)
      /\ PlainLiteral(LitOf(lastOp.prev))) =>
       (output # <<>> /\ LastEntry = LitOf(lastOp.prev))

\* sys.log(x) has run right after local x = "" and appended the empty entry
EmptyLiteralLogged ==
  /\ lastOp.op = "log"
  /\ lastOp.line = lLogX
  /\ lastOp.prev = lLocalEmpty
  /\ output = <<<<>>>>

\* C5: after local w = window_Id("window-11") on a non-empty registry,
\* local i = w.info:(null) binds i to the info snapshot of the first record,
\* and sys.log(i) appends a rendering that holds that record's id and title
\* as its id and title fields.
InfoSnapshotLogged ==
  /\ (lastOp.op = "local" /\ lastOp.line = lInfo /\ lastOp.prev = lWin11) =>
       MapGet(variables, <<"i">>) = getWindowInfo(1, Null, windows)
  /\ (/\ lastOp.op = "log"
      /\ lastOp.line = lLogI
      /\ lastOp.prev = lInfo
      /\ code = Join(<<lWin11, lInfo, lLogI>>, <<"\n">>)) =>
       /\ output # <<>>
       /\ Includes(LastEntry, <<"\"", "i", "d", "\"", ":", " ", "\"">> \o windows[1].id \o <<"\"">>)
       /\ Includes(LastEntry, <<"\"", "t", "i", "t", "l", "e", "\"", ":", " ", "\"">> \o windows[1].title \o <<"\"">>)

\* C6: when a local declaration or an export function opens a brace that is
\* not closed before the end of the script, so that the scan for the closing
\* brace runs past the last line, execute returns a string that begins with
\* "Fluxo Error:".
UnclosedBraceIsError ==
  (Returned /\ Includes(lastOp.prev, <<"{">>) /\ idx = Len(tokens) + 2) =>
    StartsWith(result, <<"F", "l", "u", "x", "o", " ", "E", "r", "r", "o", "r", ":">>)

\* C7: on a non-empty registry the script local w = window_Id("window-11"),
\* w.database:write("k","v"), local r = w.database:read("k"), sys.log(r)
\* returns exactly v.
BareWriteThenRead ==
  (/\ Returned
   /\ calls = 1
   /\ windows # <<>>
   /\ code = Join(<<lWin11, lWriteStmt, lRead, lLogR>>, <<"\n">>)) =>
    result = <<"v">>

\* C8: database.read(k) right after database.write(k, v) on the same window
\* object returns v, the empty string included, also when the window was
\* looked up again in between; the read of a key never written returns null.
WriteThenReadReturnsValue ==
  /\ (lastOp.op = "local" /\ lastOp.line = lRead /\ lastOp.prev = lWriteV) =>
       MapGet(variables, <<"r">>) = Str(<<"v">>)
  /\ (lastOp.op = "local" /\ lastOp.line = lRead /\ lastOp.prev = lWriteEmpty) =>
       MapGet(variables, <<"r">>) = Str(<<>>)
  /\ (/\ lastOp.op = "local"
      /\ lastOp.line = lRead
      /\ code = Join(<<lWin1, lWriteV, lWin11, lRead>>, <<"\n">>)) =>
       MapGet(variables, <<"r">>) = Str(<<"v">>)
  /\ (lastOp.op = "local" /\ lastOp.line = lReadN /\ lastOp.prev = lWin11) =>
       MapGet(variables, <<"r">>) = Null

\* the line is name(args): a run of word characters, "(", and ")" at its end
CallShaped(line) ==
  /\ WordEnd(line, 1) >= 1
  /\ WordEnd(line, 1) < Len(line)
  /\ line[WordEnd(line, 1) + 1] = "("
  /\ line[Len(line)] = ")"

\* the dispatcher is at a line name(args) whose name is no exported function
AtUndefinedCall ==
  /\ Running
  /\ CallShaped(CurLine)
  /\ ~MapHas(exports, SubSeq(CurLine, 1, WordEnd(CurLine, 1)))

\* the step appends nothing, binds nothing, leaves the registry as it is,
\* raises no error, and moves the dispatcher to the next line
PassedOver ==
  /\ output' = output
  /\ variables' = variables
  /\ exports' = exports
  /\ windows' = windows
  /\ pc' = "run"
  /\ idx' = idx + 1

\* C9 as stated: every top-level line name(args) whose name is not in the
\* exported-function table is passed over: nothing is appended, no binding
\* and no window record changes, no error is raised, and the dispatcher
\* advances by one line.
UndefinedCallIgnored == [][AtUndefinedCall => PassedOver]_vars

\* C9: every top-level line name(args) whose name is not in the
\* exported-function table and that does not hold the text "sys.log(" is
\* passed over: nothing is appended, no binding and no window record changes,
\* no error is raised, and the dispatcher advances by one line.
UndefinedPlainCallIgnored ==
  [][(AtUndefinedCall /\ ~Includes(CurLine, <<"s", "y", "s", ".", "l", "o", "g", "(">>)) => PassedOver]_vars

\* the line foo(1) has been passed over and the run goes on
UndefinedCallSkipped ==
  /\ lastOp.op = "skip"
  /\ lastOp.line = lCallFoo
  /\ pc = "run"
  /\ idx = 2

\* C10: on every non-empty registry, window_Id("window-11") and
\* window_Id("window-1") give the window object of the first record,
\* whatever its identifier, also when another record's identifier is the
\* pattern itself.
Window11IsFirstRecord ==
  (/\ lastOp.op = "local"
   /\ lastOp.line \in {lWin11, lWin1}
   /\ windows # <<>>) =>
    (~lastOp.threw /\ MapGet(variables, <<"w">>) = Win(1))

\* window_Id("window-11") has given the first record although the second
\* record's identifier is "window-11"
FirstRecordDespiteExactId ==
  /\ lastOp.op = "local"
  /\ lastOp.line = lWin11
  /\ Len(windows) = 2
  /\ windows[2].id = <<"w", "i", "n", "d", "o", "w", "-", "1", "1">>
  /\ windows[1].id # <<"w", "i", "n", "d", "o", "w", "-", "1", "1">>
  /\ MapGet(variables, <<"w">>) = Win(1)

\* the window_Id declarations of the scripts and the patterns they name
WindowIdLines == {lWin11, lWin1, lWinAbc, lWinZ}

WindowNotFound ==
  {sFluxoError \o <<"W", "i", "n", "d", "o", "w", " ">> \o p \o <<" ", "n", "o", "t", " ", "f", "o", "u", "n", "d">> :
     p \in {<<"w", "i", "n", "d", "o", "w", "-", "1", "1">>, <<"w", "i", "n", "d", "o", "w", "-", "1">>, <<"a", "b", "c">>, <<"z", "z", "z">>}}

InvalidLocal(line) == sFluxoError \o <<"I", "n", "v", "a", "l", "i", "d", " ", "l", "o", "c", "a", "l", " ", "d", "e", "c", "l", "a", "r", "a", "t", "i", "o", "n", ":", " ">> \o line

InvalidExport(line) == sFluxoError \o <<"I", "n", "v", "a", "l", "i", "d", " ", "e", "x", "p", "o", "r", "t", " ", "f", "u", "n", "c", "t", "i", "o", "n", ":", " ">> \o line

\* the error strings the scripts can end in
ErrorStrings ==
  WindowNotFound
    \cup {InvalidLocal(l) : l \in {lBadLocal, lBadLocalEq}}
    \cup {InvalidExport(lBadExport)}

\* C12: the step that raises an error ends the call with the error string
\* alone, whatever the transcript holds by then, and after it no statement
\* of the script runs: the next step is a new call or a new interpreter.
ErrorAbortsScript ==
  [][/\ lastOp'.threw =>
          (pc' = "idle" /\ calls' = calls + 1 /\ result' \in ErrorStrings)
     /\ lastOp.threw => lastOp'.op \in {"execute", "none"}]_vars

\* a function body has logged and then raised an error, with a line of the
\* script still to come
ErrorAfterEntries ==
  /\ lastOp.op = "call"
  /\ lastOp.threw
  /\ output = <<<<"i", "n">>>>
  /\ idx < Len(tokens)
  /\ result = InvalidLocal(lBadLocal)

\* C13 as stated: a line that begins with "local " and is not of the shape
\* local name = expression, at top level or in the body of a called
\* function, and an export function line whose header is not of the shape
\* name(params), make execute return a Fluxo Error.
MalformedDeclarationIsError ==
  /\ (lastOp.op = "local"
      /\ lastOp.line \in {lBadLocal, lBadLocalEq, lLocalLocal}) =>
       (lastOp.threw /\ result = InvalidLocal(lastOp.line))
  /\ (lastOp.op = "call" /\ lastOp.line = lCallG) =>
       (lastOp.threw /\ result = InvalidLocal(lBadLocal))
  /\ (lastOp.op = "export" /\ lastOp.line \in {lBadExport, lExportExport}) =>
       (lastOp.threw /\ result = InvalidExport(lastOp.line))

\* C13: a line that begins with "local " and nowhere holds text of the shape
\* local name = expression, at top level or in the body of a called
\* function, and an export function line that nowhere holds text of the
\* shape export function name(params), make execute return a Fluxo Error.
UnmatchedDeclarationIsError ==
  /\ (lastOp.op = "local" /\ lastOp.line \in {lBadLocal, lBadLocalEq}) =>
       (lastOp.threw /\ result = InvalidLocal(lastOp.line))
  /\ (lastOp.op = "call" /\ lastOp.line = lCallG) =>
       (lastOp.threw /\ result = InvalidLocal(lBadLocal))
  /\ (lastOp.op = "export" /\ lastOp.line = lBadExport) =>
       (lastOp.threw /\ result = InvalidExport(lBadExport))

\* the declaration without "=" has ended the call with its error string
BadLocalRejected ==
  /\ lastOp.op = "local"
  /\ lastOp.line = lBadLocal
  /\ lastOp.threw
  /\ result = InvalidLocal(lBadLocal)

\* C14: evaluating <name>.info:(<arg>) with <name> unbound, or bound to a
\* value that is no window object, raises "<name> is not a valid window
\* object", and execute returns the Fluxo Error.
InfoOnInvalidTargetIsError ==
  /\ (lastOp.op = "local" /\ lastOp.line = lInfoQ) =>
       /\ lastOp.threw
       /\ result = sFluxoError \o <<"q", " ", "i", "s", " ", "n", "o", "t", " ", "a", " ", "v", "a", "l", "i", "d", " ", "w", "i", "n", "d", "o", "w", " ", "o", "b", "j", "e", "c", "t">>
  /\ (lastOp.op = "local" /\ lastOp.line = lInfoX /\ lastOp.prev = lLocalHello) =>
       /\ lastOp.threw
       /\ result = sFluxoError \o <<"x", " ", "i", "s", " ", "n", "o", "t", " ", "a", " ", "v", "a", "l", "i", "d", " ", "w", "i", "n", "d", "o", "w", " ", "o", "b", "j", "e", "c", "t">>

\* C15: the body of an exported function runs against the one environment
\* and transcript: after the call, with or without an argument, the x the
\* body declared has replaced the top-level x and the next top-level
\* sys.log(x) shows it, and the parameter p is bound only if the top level
\* bound it: the body's sys.log(p) shows that binding, or the text p.
BodySharesEnvironment ==
  /\ (lastOp.op = "call" /\ lastOp.line \in {lCallSetArg, lCallSet}) =>
       /\ ~lastOp.threw
       /\ MapGet(variables, <<"x">>) = Str(<<"b">>)
       /\ output # <<>>
       /\ IF lLocalP \in {tokens[k] : k \in 1..Len(tokens)}
          THEN MapGet(variables, <<"p">>) = Str(<<"t", "o", "p">>) /\ LastEntry = <<"t", "o", "p">>
          ELSE ~MapHas(variables, <<"p">>) /\ LastEntry = <<"p">>
  /\ (/\ lastOp.op = "log"
      /\ lastOp.line = lLogX
      /\ lastOp.prev \in {lCallSetArg, lCallSet}) =>
       LastEntry = <<"b">>

\* set("arg") has run its body: x is the body's, and p is unbound
BodyBindingVisible ==
  /\ lastOp.op = "log"
  /\ lastOp.line = lLogX
  /\ lastOp.prev = lCallSetArg
  /\ output = <<<<"p">>, <<"b">>>>
  /\ ~MapHas(variables, <<"p">>)

\* the dispatcher is at the line line
At(line) == Running /\ CurLine = line

\* the step appends the entries es, in this order, and nothing else
Appends(es) == output' = output \o es

\* C16 as stated: for an exported function whose body holds log lines only,
\* the definition appends nothing and every later call name() appends the
\* renderings of the log lines, in body order, once: n calls append them n
\* times.
LogOnlyBodyReplayed ==
  [][/\ (At(lExportGreet) \/ At(lExportTwo) \/ At(lExportBr)) => Appends(<<>>)
     /\ (At(<<"g", "r", "e", "e", "t", "(", ")">>) /\ MapHas(exports, <<"g", "r", "e", "e", "t">>)) => Appends(<<<<"h", "i">>>>)
     /\ (At(lCallTwo) /\ MapHas(exports, <<"t", "w", "o">>)) => Appends(<<<<"a">>, <<"b", " ", "c">>>>)
     /\ (At(lCallBr) /\ MapHas(exports, <<"b", "r">>)) => Appends(<<<<"}">>>>)]_vars

\* C16: for an exported function whose body holds log lines only, none of
\* them with a brace in it, the definition appends nothing and every later
\* call name() appends the renderings of the log lines, in body order, once:
\* n calls append them n times.
BraceFreeLogBodyReplayed ==
  [][/\ (At(lExportGreet) \/ At(lExportTwo)) => Appends(<<>>)
     /\ (At(<<"g", "r", "e", "e", "t", "(", ")">>) /\ MapHas(exports, <<"g", "r", "e", "e", "t">>)) => Appends(<<<<"h", "i">>>>)
     /\ (At(lCallTwo) /\ MapHas(exports, <<"t", "w", "o">>)) => Appends(<<<<"a">>, <<"b", " ", "c">>>>)]_vars

\* two() has been called twice and its two entries are there twice
TwoCalledTwice ==
  /\ lastOp.op = "call"
  /\ lastOp.line = lCallTwo
  /\ lastOp.prev = lCallTwo
  /\ output = <<<<"a">>, <<"b", " ", "c">>, <<"a">>, <<"b", " ", "c">>>>

\* the scripts with blocks: a block with a log line in it, at top level and
\* in a function body, and a function body with two blocks
BlockAtTop == Join(<<lWin11, lOpenLocal, lLogIn, lClose, lLogX>>, <<"\n">>)

FindAtTop == Join(<<lWin11, lOpenA, lFindMain, lClose, lLogX>>, <<"\n">>)

TwoBlocksInBody ==
  Join(<<lWin11, lExportScan, lOpenA, lFindMain, lClose, lOpenLocal,
         lFindComponents, lClose, lClose, lCallScan>>, <<"\n">>)

BlockInBody ==
  Join(<<lWin11, lExportScan, lOpenA, lLogIn, lClose, lClose, lCallScan>>,
       <<"\n">>)

\* the scan of a block at top level
BlockScanAtTop ==
  /\ (code = BlockAtTop /\ lastOp.op = "local" /\ lastOp.line = lOpenLocal) =>
       (lastOp.n = 3 /\ idx = 5 /\ output = <<>>)
  /\ (code = BlockAtTop /\ lastOp.op = "return") => output = <<<<"x">>>>
  /\ (code = FindAtTop /\ lastOp.op = "local" /\ lastOp.line = lOpenA) =>
       /\ lastOp.n = 3
       /\ MapGet(variables, <<"a">>) = findInLibrary(1, <<"m", "a", "i", "n", "S", "e", "c", "t", "i", "o", "n">>, windows).v
  /\ (code = TwoBlocksInBody /\ lastOp.op = "export") =>
       /\ lastOp.n = 8
       /\ idx = 10
       /\ exports[<<"s", "c", "a", "n">>].body =
            Join(<<lExportScan, lOpenA, lFindMain, lClose, lOpenLocal,
                   lFindComponents, lClose, lClose, <<>>>>, <<"\n">>)

\* the scan of a block in the body of a called function
BlockScanInBody ==
  /\ (code = TwoBlocksInBody /\ lastOp.op = "call") =>
       /\ MapGet(variables, <<"a">>) = findInLibrary(1, <<"m", "a", "i", "n", "S", "e", "c", "t", "i", "o", "n">>, windows).v
       /\ MapGet(variables, <<"b">>) = findInLibrary(1, <<"c", "o", "m", "p", "o", "n", "e", "n", "t", "s">>, windows).v
  /\ (code = BlockInBody /\ lastOp.op = "call") => output = <<>>

\* the body with two blocks has been stored whole, and the call has bound b
BodyStoredWhole ==
  /\ code = TwoBlocksInBody
  /\ lastOp.op = "call"
  /\ MapHas(variables, <<"b">>)
  /\ MapGet(variables, <<"b">>) = findInLibrary(1, <<"m", "a", "i", "n", "S", "e", "c", "t", "i", "o", "n">>, windows).v
  /\ MapGet(variables, <<"b">>) # findInLibrary(1, <<"c", "o", "m", "p", "o", "n", "e", "n", "t", "s">>, windows).v

\* C17: in a script whose braces match, the scan of a local ... { declaration
\* or of an export function ends at the line where the depth is back at
\* zero, the block is the lines from the first one with a brace to that
\* line, and the run goes on right after it: no line of a block is run as a
\* statement and no later line is passed over, at top level and in the body
\* of a called function.
BlockScanBalanced ==
  /\ BlockScanAtTop
  /\ BlockScanInBody

\* the i-th record keeps its identifier, title, application type and size
\* over a step, and its library changes only from an absent one to the
\* default one
RecordKept(i) ==
  /\ windows'[i].id = windows[i].id
  /\ windows'[i].title = windows[i].title
  /\ windows'[i].appType = windows[i].appType
  /\ windows'[i].size = windows[i].size
  /\ DOMAIN windows'[i] = DOMAIN windows[i]
  /\ windows'[i].library # windows[i].library =>
       /\ ~Truthy(windows[i].library)
       /\ windows'[i].library = initializeDefaultLibrary(windows[i])

\* C18: no step changes the length or the order of the registry or the
\* identifier, title, application type or size of a record; of the fields of
\* a record only library, set once when it is absent, and data change.
RegistryStable ==
  [][/\ Len(windows') = Len(windows)
     /\ \A i \in 1..Len(windows) : RecordKept(i)]_vars

\* a script has filled the absent library of the first record and has
\* written to its data
LibrarySetAndDataWritten ==
  /\ lastOp.line = lWriteV
  /\ Len(windows) = 2
  /\ windows[1].id = WinA.id
  /\ ~Truthy(WinA.library)
  /\ windows[1].library = initializeDefaultLibrary(WinA)
  /\ windows[1].data = Obj(<<Field(<<"k">>, Str(<<"v">>))>>)
  /\ windows[2] \in {WinB, WinC}

\* the records with the identifier p, and the "vsstudio" records
WithId(p) == {i \in 1..Len(windows) : windows[i].id = p}

Vsstudio ==
  {i \in 1..Len(windows) :
     \/ windows[i].appType = <<"v", "s", "s", "t", "u", "d", "i", "o">>
     \/ windows[i].title \in {<<"M", "y", " ", "V", "S", "S", "t", "u", "d", "i", "o">>}}

\* the record a pattern stands for: the one with that identifier, else the
\* first "vsstudio" one, else the first one
Preferred(p) ==
  IF WithId(p) # {} THEN CHOOSE i \in WithId(p) : \A j \in WithId(p) : i <= j
  ELSE IF Vsstudio # {}
  THEN CHOOSE i \in Vsstudio : \A j \in Vsstudio : i <= j
  ELSE 1

\* the pattern of a line local w = window_Id(...) of the scripts
PatternOf(line) == IF line = lWinAbc THEN <<"a", "b", "c">> ELSE <<"z", "z", "z">>

\* C19: for a pattern other than "window-1" and "window-11", window_Id gives
\* the record whose identifier is the pattern, else the first record whose
\* title holds "vsstudio" in any case or whose application type is
\* "vsstudio", else the first record, else nothing when the registry is
\* empty; an exact match wins over a "vsstudio" record that comes earlier.
ResolveOrder ==
  (lastOp.op = "local" /\ lastOp.line \in {lWinAbc, lWinZ}) =>
    /\ lastOp.threw <=> windows = <<>>
    /\ ~lastOp.threw =>
         MapGet(variables, <<"w">>) = Win(Preferred(PatternOf(lastOp.line)))
    /\ (~lastOp.threw /\ lastOp.line = lWinAbc /\ Len(windows) = 2
          /\ windows[2].id = <<"a", "b", "c">>) => MapGet(variables, <<"w">>) = Win(2)

\* the pattern is the identifier of the second record and the first record
\* is a "vsstudio" one: the second record is the one bound
ExactBeatsEarlierVsstudio ==
  /\ lastOp.op = "local"
  /\ lastOp.line = lWinAbc
  /\ Len(windows) = 2
  /\ windows[1].appType = <<"v", "s", "s", "t", "u", "d", "i", "o">>
  /\ windows[2].id = <<"a", "b", "c">>
  /\ MapGet(variables, <<"w">>) = Win(2)

\* declarations of r by a colon-method call with a link missing: the name
\* q is bound by no script, a window object has no property nothing, its
\* database has no method nothing, and the text bound to x has no property
\* database
AbsentLinkLines == {lReadQ, lReadNoProp, lReadNoMethod, lReadStr}

\* C20: a colon-method call name.property:method(args) gives null and
\* raises no error when the name is unbound, the value bound has no such
\* property, or the property has no such method; no window record and no
\* other binding changes.
AbsentLinkGivesNull ==
  [][(Running /\ CurLine \in AbsentLinkLines) =>
       /\ lastOp'.op = "local"
       /\ ~lastOp'.threw
       /\ pc' = "run"
       /\ variables' = MapSet(variables, <<"r">>, Null)
       /\ windows' = windows
       /\ UNCHANGED <<exports, output>>]_vars

\* r, bound to a text before, is null after a call of a method the database
\* of the window object does not have
AbsentMethodBoundNull ==
  /\ lastOp.op = "local"
  /\ lastOp.line = lReadNoMethod
  /\ lastOp.prev = lLocalROld
  /\ MapGet(variables, <<"w">>) = Win(1)
  /\ MapGet(variables, <<"r">>) = Null

\* the dispatcher is at a line it takes as a log call
AtLogLine ==
  /\ Running
  /\ ~StartsWith(CurLine, <<"l", "o", "c", "a", "l", " ">>)
  /\ ~StartsWith(CurLine, <<"e", "x", "p", "o", "r", "t", " ", "f", "u", "n", "c", "t", "i", "o", "n", " ">>)
  /\ Includes(CurLine, <<"s", "y", "s", ".", "l", "o", "g", "(">>)

\* C21: every dispatched line that holds sys.log( and starts with neither
\* local nor export function appends exactly one entry, the renderings of
\* its comma-separated arguments joined by spaces, and moves the dispatcher
\* on by one line, whatever the argument list, the empty one included.
LogLineAppendsOne ==
  [][AtLogLine =>
       /\ Len(output') = Len(output) + 1
       /\ SubSeq(output', 1, Len(output)) = output
       /\ idx' = idx + 1
       /\ pc' = "run"
       /\ CurLine = lLogBC => Appends(<<<<"b", " ", "c">>>>)
       /\ CurLine = lLogNone => Appends(<<<<>>>>)]_vars

\* a function rec whose body calls the function g, itself, and g with
\* arguments, and one call of rec
CallsInBody ==
  Join(<<lLocalHello, lExportG, lLogIn, lClose, lExportRec, lCallG, lCallRec,
         lCallGArgs, lClose, lCallRec>>, <<"\n">>)

\* the entries of the three call lines of the body of rec
CalledEntries ==
  <<<<"C", "a", "l", "l", "e", "d", " ", "g", " ", "w", "i", "t", "h", ":", " ", "[", "\"", "\"", "]">>, <<"C", "a", "l", "l", "e", "d", " ", "r", "e", "c", " ", "w", "i", "t", "h", ":", " ", "[", "\"", "\"", "]">>,
    <<"C", "a", "l", "l", "e", "d", " ", "g", " ", "w", "i", "t", "h", ":", " ", "[", "\"", "\\", "\"", "a", "\\", "\"", "\"", ",", "\"", "h", "e", "l", "l", "o", "\"", "]">>>>

QuotedKeyBlock == Join(<<lWin11, lOpenZ, lFindQuoted, lClose>>, <<"\n">>)

NoKeyBlock == Join(<<lWin11, lOpenA, lFindNoKey, lClose>>, <<"\n">>)

ComponentsBlock == Join(<<lWin11, lOpenA, lFindComponents, lClose>>, <<"\n">>)

TextNameBlock == Join(<<lLocalHello, lOpenA, lFindX, lClose>>, <<"\n">>)

\* the library of the first record after a find on it: its own, or the
\* default one when it has none
LibraryAfterFind ==
  IF Truthy(windows[1].library) THEN windows[1].library
  ELSE initializeDefaultLibrary(windows[1])

\* the step binds the variable to what the library of the first record holds
\* at the key, null when it holds nothing there, and consumes the block
BindsLibraryValue(var, key) ==
  /\ windows' = [windows EXCEPT ![1].library = LibraryAfterFind]
  /\ MapGet(variables', var) = OrElse(FieldGet(LibraryAfterFind.f, key), Null)
  /\ MapHas(variables', var)

\* a block declaration at top level binds the library value
BlockBindsAtTop ==
  /\ (code \in {FindAtTop, QuotedKeyBlock} /\ Running
        /\ CurLine \in {lOpenA, lOpenZ}) =>
       (BindsLibraryValue(<<"a">>, <<"m", "a", "i", "n", "S", "e", "c", "t", "i", "o", "n">>) /\ idx' = idx + 3)
  /\ (code = NoKeyBlock /\ At(lOpenA)) =>
       (BindsLibraryValue(<<"a">>, <<"n", "o", "k", "e", "y">>) /\ MapGet(variables', <<"a">>) = Null)
  /\ (code = ComponentsBlock /\ At(lOpenA)) =>
       BindsLibraryValue(<<"a">>, <<"c", "o", "m", "p", "o", "n", "e", "n", "t", "s">>)
  /\ (code = TextNameBlock /\ At(lOpenA)) =>
       (MapGet(variables', <<"a">>) = Null /\ MapHas(variables', <<"a">>)
          /\ windows' = windows)
  /\ (code = BlockAtTop /\ At(lOpenLocal)) =>
       (MapGet(variables', <<"b">>) = Null /\ MapHas(variables', <<"b">>)
          /\ windows' = windows)

\* the second block declaration of the body of a called function binds the
\* library value at the key of its own block
BlockBindsInBody ==
  (code = TwoBlocksInBody /\ At(lCallScan)) =>
    BindsLibraryValue(<<"b">>, <<"c", "o", "m", "p", "o", "n", "e", "n", "t", "s">>)

\* C23: a block declaration local n = prefix{ name.prop:find(arg) } binds n
\* to the value the library of the record behind the window object name
\* holds at the key arg, quotes stripped, after giving the record the
\* default library when it has none; to null when the library holds nothing
\* at the key, when the content has another shape, and when name is not
\* bound to a window object; whatever the prefix.
BlockBindsLibraryValue ==
  [][/\ BlockBindsAtTop
     /\ BlockBindsInBody]_vars

\* the two block declarations of the body of scan, at top level
TwoBlocksAtTop ==
  Join(<<lWin11, lOpenA, lFindMain, lClose, lOpenLocal, lFindComponents,
         lClose>>, <<"\n">>)

\* what the library of the first record holds at a key, null for nothing
Held(key) == OrElse(FieldGet(windows[1].library.f, key), Null)

\* C24: when the body of a called function holds several block
\* declarations, local a = p{ ... } and local b = q{ ... }, each is
\* evaluated on its own block: b is bound to the value of the content of
\* the second block, as it is when the two declarations stand at top level,
\* not to the value of the first block of the body.
EachBlockItsOwn ==
  (\/ code = TwoBlocksAtTop /\ lastOp.op = "local" /\ lastOp.line = lOpenLocal
   \/ code = TwoBlocksInBody /\ lastOp.op = "call") =>
    /\ MapGet(variables, <<"a">>) = Held(<<"m", "a", "i", "n", "S", "e", "c", "t", "i", "o", "n">>)
    /\ MapGet(variables, <<"b">>) = Held(<<"c", "o", "m", "p", "o", "n", "e", "n", "t", "s">>)

\* declarations by library.find and by libary.find, with their variable and
\* their key
FindLines ==
  {lLibraryCross, lLibaryCross, lLibraryNoKey, lLibaryNoKey,
   lLibaryComponents, lLibraryComponents}

FindVar(line) ==
  IF line \in {lLibraryCross, lLibraryNoKey, lLibaryComponents} THEN <<"a">>
  ELSE <<"b">>

FindKey(line) ==
  IF line \in {lLibraryCross, lLibaryCross} THEN <<"c", "r", "o", "s", "s", "S", "e", "c", "t", "i", "o", "n">>
  ELSE IF line \in {lLibraryNoKey, lLibaryNoKey} THEN <<"n", "o", "k", "e", "y">>
  ELSE <<"c", "o", "m", "p", "o", "n", "e", "n", "t", "s">>

\* the width and the height in the crossSection of a library
CrossSize(lib) ==
  <<FieldGet(FieldGet(FieldGet(lib.f, <<"c", "r", "o", "s", "s", "S", "e", "c", "t", "i", "o", "n">>).f, <<"d", "a", "t", "a">>).f, <<"w", "i", "d", "t", "h">>),
    FieldGet(FieldGet(FieldGet(lib.f, <<"c", "r", "o", "s", "s", "S", "e", "c", "t", "i", "o", "n">>).f, <<"d", "a", "t", "a">>).f, <<"h", "e", "i", "g", "h", "t">>)>>

WrittenKey(line) == IF line = lWriteN THEN <<"n">> ELSE <<"k">>

WrittenValue(line) ==
  IF line = lWriteN THEN OrElse(MapGet(variables, <<"x">>), Str(<<"x">>))
  ELSE Str(<<"v">>)

\* what the data store of a record holds at a key, undefined for no store
Stored(w, key) == IF Truthy(w.data) THEN FieldGet(w.data.f, key) ELSE Undef

\* the step writes the value at the key of the store of record i and
\* nothing else of the registry
WritesOnly(i, key, value) ==
  /\ Len(windows') = Len(windows)
  /\ \A j \in 1..Len(windows) : j # i => windows'[j] = windows[j]
  /\ windows' = [windows EXCEPT ![i].data = windows'[i].data]
  /\ Stored(windows'[i], key) = value
  /\ \A k2 \in {<<"k">>, <<"n">>, <<"z", "z">>} \ {key} :
       Stored(windows'[i], k2) = Stored(windows[i], k2)
  /\ Len(windows'[i].data.f) <=
       (IF Truthy(windows[i].data) THEN Len(windows[i].data.f) ELSE 0) + 1

\* C26: database.write(key, value) of a window object changes the entry at
\* the key in the data store of the record of that object, making the store
\* when there is none, and nothing else: no other key, no other record, no
\* variable but the one the declaration binds, not the transcript; it
\* returns the record {success: true, key, value}.
WriteChangesOneEntry ==
  [][(Running /\ CurLine \in {lWriteV, lWriteN}
        /\ MapGet(variables, <<"w">>).t = "win") =>
       /\ WritesOnly(MapGet(variables, <<"w">>).n, WrittenKey(CurLine),
                     WrittenValue(CurLine))
       /\ variables' =
            MapSet(variables, <<"a">>,
                   Obj(<<Field(<<"s", "u", "c", "c", "e", "s", "s">>, Bool(TRUE)),
                         Field(<<"k", "e", "y">>, Str(WrittenKey(CurLine))),
                         Field(<<"v", "a", "l", "u", "e">>, WrittenValue(CurLine))>>))
       /\ UNCHANGED <<output, exports>>
       /\ ~lastOp'.threw]_vars

\* a write at a new key of a store that held another key: both are there
WrittenBesideOldKey ==
  /\ lastOp.op = "local"
  /\ lastOp.line = lWriteN
  /\ windows[1].id = WinB.id
  /\ Stored(WinB, <<"k">>) = Str(<<"o", "l", "d">>)
  /\ Stored(windows[1], <<"k">>) = Str(<<"o", "l", "d">>)
  /\ Stored(windows[1], <<"n">>) = Str(<<"h", "e", "l", "l", "o">>)

\* C27: execute terminates on every script: each step of the dispatch loop
\* moves the line index on by at least one line or ends the call, also when
\* a block scan runs to the end of the input, and a call of a function is
\* one pass over its body inside one step.
ExecuteTerminates ==
  [][pc = "run" =>
       \/ pc' = "idle" /\ calls' = calls + 1
       \/ /\ pc' = "run"
          /\ tokens' = tokens
          /\ idx <= Len(tokens)
          /\ idx' > idx
          /\ idx' <= Len(tokens) + 2
          /\ lastOp'.n = idx' - idx
          /\ lastOp'.n >= 1]_vars

\* a block scan has run to the end of the input and execute has returned
ScanToEndReturned ==
  /\ Returned
  /\ Includes(lastOp.prev, <<"{">>)
  /\ idx = Len(tokens) + 2

\* an export function line for the name has been dispatched earlier in the
\* run under way
DefinedEarlier(name) ==
  \E j \in 1..(idx - 1) :
    /\ StartsWith(Trim(tokens[j]), <<"e", "x", "p", "o", "r", "t", " ", "f", "u", "n", "c", "t", "i", "o", "n", " ">>)
    /\ MatchExport(Trim(tokens[j])).ok
    /\ MatchExport(Trim(tokens[j])).g1 = name

\* a call line whose function no earlier line of this run defines appends
\* nothing and changes nothing
CallBeforeDefinitionIsNoOp ==
  (Running /\ CurLine \in {Trim(lCallGreet), lCallG, lCallScan, lCallRec}
     /\ ~DefinedEarlier(MatchCallName(CurLine).g1)) =>
    (lastOp'.op = "skip" /\ UNCHANGED <<output, variables, windows, exports>>)

\* a definition stores the function and runs no line of its body
DefinitionRunsNothing ==
  lastOp'.op = "export" => UNCHANGED <<output, variables, windows>>

\* C28: a call line runs an exported function only if the export function
\* definition of that function was dispatched earlier in the same run: a
\* call line before the definition appends nothing, and a definition runs
\* no line of its body, so that defining without calling changes neither
\* the transcript nor a variable nor a window record.
CallOnlyAfterDefinition ==
  [][/\ CallBeforeDefinitionIsNoOp
     /\ DefinitionRunsNothing
     /\ lastOp'.op = "call" => DefinedEarlier(MatchCallName(CurLine).g1)]_vars

\* a write, a library look-up and a log line, then a line that fails
WriteThenFail ==
  Join(<<lWin11, lWriteV, lLibraryCross, lLogIn, lBadLocal, lLogX>>, <<"\n">>)

\* C29: a failure is not rolled back: when execute returns a Fluxo Error,
\* every database write and every library the statements before the failing
\* one have put on the window records is still there, while the entries
\* those statements appended are not in the result.
FailureKeepsWrites ==
  [][lastOp'.threw =>
       /\ windows' = windows
       /\ pc' = "idle"
       /\ result' \in ErrorStrings
       /\ (code = WriteThenFail /\ windows # <<>>) =>
            /\ Stored(windows'[1], <<"k">>) = Str(<<"v">>)
            /\ Truthy(windows'[1].library)
            /\ windows'[1].id = <<"a", "b", "c">> =>
                 windows'[1].library = initializeDefaultLibrary(WinA)
            /\ output' = <<<<"i", "n">>>>
            /\ result' = <<"F", "l", "u", "x", "o", " ", "E", "r", "r", "o", "r", ":", " ", "I", "n", "v", "a", "l", "i", "d", " ", "l", "o", "c", "a", "l", " ", "d", "e", "c", "l", "a", "r", "a", "t", "i", "o", "n", ":", " ", "l", "o", "c", "a", "l", " ", "o", "o", "p", "s">>]_vars

\* execute has returned an error after a write and a library look-up on a
\* record that had neither a store nor a library
FailedAfterWrite ==
  /\ code = WriteThenFail
  /\ pc = "idle"
  /\ lastOp.threw
  /\ windows # <<>>
  /\ windows[1].id = <<"a", "b", "c">>
  /\ ~Truthy(WinA.data) /\ ~Truthy(WinA.library)
  /\ Stored(windows[1], <<"k">>) = Str(<<"v">>)
  /\ windows[1].library = initializeDefaultLibrary(WinA)
  /\ StartsWith(result, <<"F", "l", "u", "x", "o", " ", "E", "r", "r", "o", "r", ":">>)

\* w and v of the patterns "window-11" and "window-1", and w of "window-11"
\* with v of the pattern "abc": a write through w, then a read through v
SamePatternRecord ==
  Join(<<lWin11, lWinV1, lWriteV, lReadV, lLogR>>, <<"\n">>)

OtherPattern == Join(<<lWin11, lWinVAbc, lWriteV, lReadV, lLogR>>, <<"\n">>)

\* what the registry the host handed over holds at key k of a record
StoredAtFirst(id) == IF id = WinB.id THEN Str(<<"o", "l", "d">>) ELSE Null

\* C30: a window object stands for a record, not for a pattern: when two
\* variables got by window_Id stand for the same record, as with the
\* patterns "window-1" and "window-11", a write through one is what a read
\* through the other returns; a write through a window object of another
\* record is never seen.
WindowObjectsShareRecord ==
  (lastOp.op = "local" /\ lastOp.line = lReadV
     /\ code \in {SamePatternRecord, OtherPattern}) =>
    /\ code = SamePatternRecord =>
         MapGet(variables, <<"w">>) = MapGet(variables, <<"v">>)
    /\ MapGet(variables, <<"w">>).n = MapGet(variables, <<"v">>).n =>
         /\ MapGet(variables, <<"r">>) = Str(<<"v">>)
         /\ output = <<>>
    /\ MapGet(variables, <<"w">>).n # MapGet(variables, <<"v">>).n =>
         /\ MapGet(variables, <<"r">>) =
              StoredAtFirst(windows[MapGet(variables, <<"v">>).n].id)
         /\ MapGet(variables, <<"r">>) # Str(<<"v">>)
         /\ Stored(windows[MapGet(variables, <<"w">>).n], <<"k">>) = Str(<<"v">>)

\* the value written through w is read through v, the two got by the
\* patterns "window-11" and "window-1"
WrittenThroughOneReadThroughOther ==
  /\ code = SamePatternRecord
  /\ lastOp.op = "log"
  /\ MapGet(variables, <<"w">>) = Win(1)
  /\ MapGet(variables, <<"v">>) = Win(1)
  /\ MapGet(variables, <<"r">>) = Str(<<"v">>)
  /\ output = <<<<"v">>>>

====
